---- MODULE Spec2Model ----
(***************************************************************************)
(* Deterministic statement extraction of ai/pdf_parser.py.                 *)
(*                                                                         *)
(* Text is a sequence of characters (one-character strings).  The regular  *)
(* expressions of the source are sequences of items matched by a           *)
(* backtracking matcher that tries alternatives in the order Python's re   *)
(* does (greedy quantifiers, leftmost match), so that groups and           *)
(* non-overlapping iteration come out as in the source.                    *)
(***************************************************************************)
EXTENDS Integers, Sequences, FiniteSets, TLC

\* ------------------------------------------------------------ characters

DigitSeq == <<"0", "1", "2", "3", "4", "5", "6", "7", "8", "9">>
UpperSeq == <<"A", "B", "C", "D", "E", "F", "G", "H", "I", "J", "K", "L", "M",
              "N", "O", "P", "Q", "R", "S", "T", "U", "V", "W", "X", "Y", "Z">>
LowerSeq == <<"a", "b", "c", "d", "e", "f", "g", "h", "i", "j", "k", "l", "m",
              "n", "o", "p", "q", "r", "s", "t", "u", "v", "w", "x", "y", "z">>

Range(f) == {f[x] : x \in DOMAIN f}

\* \d of re (str patterns): the decimal digits
Digit == Range(DigitSeq)
Upper == Range(UpperSeq)
Lower == Range(LowerSeq)
\* a character of category No: str.isdigit() and str.isalnum() hold of it,
\* \w matches it, \d does not, and int() rejects it
SupDigit == {"²"}
\* \w of re
WordCh == Digit \cup Upper \cup Lower \cup {"_"} \cup SupDigit
\* \s of re, and what str.strip() removes
Space == {" ", "\n", "\t"}
Punct == {"*", "/", "-", ".", ",", "$", ":", "+"}
AllCh == WordCh \cup Space \cup Punct
\* . of re (no DOTALL): any character but the line break
Dot == AllCh \ {"\n"}
\* [\d.,]
AmountCh == Digit \cup {".", ","}
\* [-/]
DateSep == {"-", "/"}

IndexOf(seq, c) == CHOOSE k \in DOMAIN seq : seq[k] = c

\* str.lower() / str.upper() on one character
LowerCh(c) == IF c \in Upper THEN LowerSeq[IndexOf(UpperSeq, c)] ELSE c
UpperCh(c) == IF c \in Lower THEN UpperSeq[IndexOf(LowerSeq, c)] ELSE c
\* str.lower()
LowerStr(s) == [k \in 1..Len(s) |-> LowerCh(s[k])]

\* ------------------------------------------------------------ re patterns

\* one item: a character class with a greedy quantifier {lo,hi}
Cls(cs, lo, hi) == [t |-> "cls", cs |-> cs, lo |-> lo, hi |-> hi]
\* no upper limit (+, *): RunLen counts down from it and never reaches 0
Unbounded == 0 - 1
\* zero-width items
WordBoundary == [t |-> "wb"]
\* $ with re.MULTILINE
EndOfLine == [t |-> "eol"]
\* $ without re.MULTILINE
EndOfString == [t |-> "eos"]
\* ^ without re.MULTILINE
StartOfString == [t |-> "bos"]

\* a literal word under re.IGNORECASE
LitI(w) == [k \in 1..Len(w) |-> Cls({LowerCh(w[k]), UpperCh(w[k])}, 1, 1)]
\* \s+
Spaces1 == <<Cls(Space, 1, Unbounded)>>

\* the least element of a non-empty set of integers
Min(S) == CHOOSE k \in S : \A j \in S : k <= j

\* how many characters of s from position i on lie in cs, at most hi
RunLen(s, i, cs, hi) ==
    LET last == IF hi >= 0 /\ i + hi - 1 < Len(s) THEN i + hi - 1 ELSE Len(s)
        stops == {k \in i..last : s[k] \notin cs}
    IN  IF stops = {} THEN last + 1 - i ELSE Min(stops) - i

IsWord(s, i) == i >= 1 /\ i <= Len(s) /\ s[i] \in WordCh

ZeroWidth(it, s, i) ==
    CASE it.t = "wb"  -> IsWord(s, i - 1) # IsWord(s, i)
      [] it.t = "eol" -> i = Len(s) + 1 \/ s[i] = "\n"
      [] it.t = "eos" -> i = Len(s) + 1 \/ (i = Len(s) /\ s[i] = "\n")
      [] it.t = "bos" -> i = 1

RECURSIVE MatchFrom(_, _, _, _), TryCount(_, _, _, _, _)
\* Items k.. of pattern p matched against s from position i: the start of
\* each item followed by the end of the match, or <<>> when nothing matches.
\* The first match in Python's order: each class takes as many characters as
\* it can and gives them back one at a time.
MatchFrom(p, s, k, i) ==
    IF k > Len(p) THEN <<i>>
    ELSE IF p[k].t = "cls"
         THEN TryCount(p, s, k, i, RunLen(s, i, p[k].cs, p[k].hi))
         ELSE IF ZeroWidth(p[k], s, i)
              THEN LET r == MatchFrom(p, s, k + 1, i)
                   IN  IF r = <<>> THEN <<>> ELSE <<i>> \o r
              ELSE <<>>
TryCount(p, s, k, i, n) ==
    IF n < p[k].lo THEN <<>>
    ELSE LET r == MatchFrom(p, s, k + 1, i + n)
         IN  IF r # <<>> THEN <<i>> \o r ELSE TryCount(p, s, k, i, n - 1)

\* re.match(p, s)
Match(p, s) == MatchFrom(p, s, 1, 1)

\* the match of p in s at the least of the positions starts, or <<>>
MatchAtFirst(p, s, starts) ==
    IF starts = {} THEN <<>> ELSE MatchFrom(p, s, 1, Min(starts))
\* re.search(p, s) from position i on: the leftmost match, or <<>>
SearchFrom(p, s, i) ==
    MatchAtFirst(p, s, {j \in i..(Len(s) + 1) : MatchFrom(p, s, 1, j) # <<>>})

Search(p, s) == SearchFrom(p, s, 1)

\* bool(re.search(a1|a2|..., s)) for the set of alternatives alts
SearchAlt(alts, s) == \E p \in alts : Search(p, s) # <<>>

\* m.start(), m.end() of a match b
MStart(b) == b[1]
MEnd(b) == b[Len(b)]
\* the text a match b gives to items a..z of its pattern
Group(s, b, a, z) == SubSeq(s, b[a], b[z + 1] - 1)

\* ------------------------------------------------------------ str helpers

LStrip(s) == SubSeq(s, RunLen(s, 1, Space, Unbounded) + 1, Len(s))
RStrip(s) ==
    LET keep == {k \in 1..Len(s) : s[k] \notin Space}
    IN  IF keep = {} THEN <<>> ELSE SubSeq(s, 1, 0 - Min({0 - k : k \in keep}))
\* str.strip()
Strip(s) == LStrip(RStrip(s))

\* s.replace(c, "") for a character c
Remove(s, c) == SelectSeq(s, LAMBDA x : x # c)
\* s.replace(c, d) for characters c, d
Replace(s, c, d) == [k \in 1..Len(s) |-> IF s[k] = c THEN d ELSE s[k]]
\* c in s
Has(s, c) == \E k \in 1..Len(s) : s[k] = c
\* s[:n]
Prefix(s, n) == SubSeq(s, 1, IF Len(s) < n THEN Len(s) ELSE n)

RECURSIVE SplitOn(_, _)
\* re.split(r"[seps]", s): the pieces between separators, empty ones kept
SplitOn(s, seps) ==
    LET n == RunLen(s, 1, AllCh \ seps, Unbounded)
    IN  IF n = Len(s) THEN <<s>>
        ELSE <<SubSeq(s, 1, n)>> \o SplitOn(SubSeq(s, n + 2, Len(s)), seps)

RECURSIVE SplitLines(_)
\* str.splitlines(): no empty last line after a final line break
SplitLines(s) ==
    IF s = <<>> THEN <<>>
    ELSE LET n == RunLen(s, 1, Dot, Unbounded)
         IN  <<SubSeq(s, 1, n)>> \o SplitLines(SubSeq(s, n + 2, Len(s)))

\* ------------------------------------------------------------ values

\* Python's None.  A value that may be None is a sequence: None is the empty
\* one, a string is its characters, and an optional integer n is <<n>>.
None == <<>>
Some(n) == <<n>>
\* an uncaught ValueError leaving a function that returns a string, a dict,
\* a list of dicts (TLC compares only values of one kind)
Raise == <<"ValueError">>
RaiseDict == [error |-> "ValueError"]
RaiseList == <<RaiseDict>>

\* k in d, d[k] on a sequence of <<key, value>> pairs
DictHas(d, k) == \E j \in 1..Len(d) : d[j][1] = k
DictVal(d, k) == d[CHOOSE j \in 1..Len(d) : d[j][1] = k][2]

_MESES_ES == <<
    <<<<"e", "n", "e">>, 1>>,
    <<<<"f", "e", "b">>, 2>>,
    <<<<"m", "a", "r">>, 3>>,
    <<<<"a", "b", "r">>, 4>>,
    <<<<"m", "a", "y">>, 5>>,
    <<<<"j", "u", "n">>, 6>>,
    <<<<"j", "u", "l">>, 7>>,
    <<<<"a", "g", "o">>, 8>>,
    <<<<"s", "e", "p">>, 9>>,
    <<<<"o", "c", "t">>, 10>>,
    <<<<"n", "o", "v">>, 11>>,
    <<<<"d", "i", "c">>, 12>>,
    <<<<"j", "a", "n">>, 1>>,
    <<<<"a", "p", "r">>, 4>>,
    <<<<"a", "u", "g">>, 8>>,
    <<<<"d", "e", "c">>, 12>> >>

\* ------------------------------------------------------------ int, float, date

DigitVal(c) == IndexOf(DigitSeq, c) - 1
RECURSIVE DigitsVal(_)
\* the number a string of decimal digits denotes
DigitsVal(s) ==
    IF s = <<>> THEN 0
    ELSE 10 * DigitsVal(SubSeq(s, 1, Len(s) - 1)) + DigitVal(s[Len(s)])

\* underscores of a numeric literal stand singly between two digits
UnderscoresOk(s) ==
    \A k \in 1..Len(s) :
        s[k] = "_" => k > 1 /\ k < Len(s) /\ s[k - 1] \in Digit /\ s[k + 1] \in Digit

\* s without a leading sign
Unsigned(s) == IF s # <<>> /\ s[1] \in {"+", "-"} THEN Tail(s) ELSE s
Negative(s) == s # <<>> /\ s[1] = "-"

\* str.isdigit()
IsDigitStr(s) == s # <<>> /\ \A k \in 1..Len(s) : s[k] \in Digit \cup SupDigit

\* int(s) returns: blanks around, a sign, decimal digits, single underscores
IntOk(s) ==
    LET u == Unsigned(Strip(s))
    IN  /\ \E k \in 1..Len(u) : u[k] \in Digit
        /\ \A k \in 1..Len(u) : u[k] \in Digit \cup {"_"}
        /\ UnderscoresOk(u)
\* int(s), when it returns
IntVal(s) ==
    LET n == DigitsVal(Remove(Unsigned(Strip(s)), "_"))
    IN  IF Negative(Strip(s)) THEN 0 - n ELSE n

\* A float is <<n, k>>, the number n / 10^k, with no trailing zero counted
\* in k: equal floats are equal pairs.  The texts of the model hold at most
\* nine digits in a number.
RECURSIVE Normal(_)
Normal(f) ==
    IF f[2] > 0 /\ f[1] % 10 = 0 THEN Normal(<<f[1] \div 10, f[2] - 1>>) ELSE f
Zero == <<0, 0>>
\* abs(f)
Abs(f) == <<IF f[1] < 0 THEN 0 - f[1] ELSE f[1], f[2]>>
\* f > 0, f <= 0
Positive(f) == f[1] > 0

\* float(s) returns: blanks around, a sign, digits with at most one point
\* and single underscores.  (float() also reads an exponent, inf and nan:
\* the letters e, i, n, f do not occur in the amount tokens of the model.)
FloatOk(s) ==
    LET u == Unsigned(Strip(s))
    IN  /\ \E k \in 1..Len(u) : u[k] \in Digit
        /\ \A k \in 1..Len(u) : u[k] \in Digit \cup {"_", "."}
        /\ Cardinality({k \in 1..Len(u) : u[k] = "."}) <= 1
        /\ UnderscoresOk(u)
\* float(s), when it returns
FloatVal(s) ==
    LET u == Remove(Unsigned(Strip(s)), "_")
        p == RunLen(u, 1, Digit, Unbounded)
        k == IF p = Len(u) THEN 0 ELSE Len(u) - p - 1
        n == DigitsVal(Remove(u, "."))
    IN  Normal(<<IF Negative(Strip(s)) THEN 0 - n ELSE n, k>>)

\* a variant of _parse_amount: -1.0 instead of 0.0 when float() raises
_parse_amount_minus_one(s0) ==
    LET s1 == Strip(Remove(Remove(s0, "$"), " "))
        s2 == IF Has(s1, ",") /\ Has(s1, ".")
              THEN Replace(Remove(s1, "."), ",", ".")
              ELSE IF Has(s1, ",") THEN Replace(s1, ",", ".") ELSE s1
    IN  IF FloatOk(s2) THEN Abs(FloatVal(s2)) ELSE <<0 - 1, 0>>

\* _parse_amount: '3.423,50' -> 3423.50; 0.0 when float() raises
_parse_amount(s0) ==
    LET s1 == Strip(Remove(Remove(s0, "$"), " "))
        s2 == IF Has(s1, ",") /\ Has(s1, ".")
              THEN Replace(Remove(s1, "."), ",", ".")
              ELSE IF Has(s1, ",") THEN Replace(s1, ",", ".") ELSE s1
    IN  IF FloatOk(s2) THEN Abs(FloatVal(s2)) ELSE Zero

IsLeap(y) == (y % 4 = 0 /\ y % 100 # 0) \/ y % 400 = 0
DaysInMonth(y, m) ==
    IF m = 2 THEN (IF IsLeap(y) THEN 29 ELSE 28)
    ELSE IF m \in {4, 6, 9, 11} THEN 30 ELSE 31
\* datetime.date(y, m, d) does not raise ValueError
DateOk(y, m, d) ==
    /\ y >= 1 /\ y <= 9999
    /\ m >= 1 /\ m <= 12
    /\ d >= 1 /\ d <= DaysInMonth(y, m)

RECURSIVE Pad(_, _)
\* "%0<w>d" % n
Pad(n, w) ==
    IF w <= 1 /\ n < 10 THEN <<DigitSeq[n + 1]>>
    ELSE Pad(n \div 10, w - 1) \o <<DigitSeq[(n % 10) + 1]>>
\* date.isoformat()
IsoFormat(y, m, d) == Pad(y, 4) \o <<"-">> \o Pad(m, 2) \o <<"-">> \o Pad(d, 2)

\* year += 2000 for a year below 100
Century(year) == IF year < 100 THEN year + 2000 ELSE year
\* date(year, month, day).isoformat(), None on its ValueError
IsoDate(year, month, day) ==
    IF DateOk(year, month, day) THEN IsoFormat(year, month, day) ELSE None
\* the month of the middle part: int(mon) for digits, else _MESES_ES.get
MonthOf(mon) ==
    IF IsDigitStr(mon) THEN Some(IntVal(mon))
    ELSE IF DictHas(_MESES_ES, LowerStr(Prefix(mon, 3)))
         THEN Some(DictVal(_MESES_ES, LowerStr(Prefix(mon, 3))))
         ELSE None
\* the date of the three parts once the month is known: None or <<month>>
DateOfMonth(day, month, year) ==
    IF month = None \/ month = Some(0) THEN None
    ELSE IF ~IntOk(day) \/ ~IntOk(year) THEN Raise
    ELSE IsoDate(Century(IntVal(year)), month[1], IntVal(day))
\* the date of the parts of the split
DateOfParts(parts) ==
    IF Len(parts) # 3 THEN None
    ELSE IF IsDigitStr(parts[2]) /\ ~IntOk(parts[2]) THEN Raise
    ELSE DateOfMonth(parts[1], MonthOf(parts[2]), parts[3])
\* _parse_date_es: '15-Oct-24', '15-10-24', '15/10/2024' -> 'YYYY-MM-DD',
\* None, or the ValueError of int()
_parse_date_es(date_str) == DateOfParts(SplitOn(Strip(date_str), DateSep))

\* ------------------------------------------------------------ line patterns

RECURSIVE Words(_)
\* w1\s+w2\s+... under re.IGNORECASE
Words(ws) ==
    IF Len(ws) = 1 THEN LitI(ws[1])
    ELSE LitI(ws[1]) \o Spaces1 \o Words(Tail(ws))

\* DETALLE\s+DEL\s+CONSUMO
DetalleRe == {Words(<<<<"D", "E", "T", "A", "L", "L", "E">>, <<"D", "E", "L">>, <<"C", "O", "N", "S", "U", "M", "O">>>>)}

\* TOTAL\s+A\s+PAGAR|IMPUESTO\s+DE\s+SELLOS|INTERESES\s+FINANCIACION|DB\s+IVA
\* |PERCEPCION\s+ING|Plan\s+V:|Cuotas\s+a\s+vencer|TARJETA\s+\d{4}\s+Total
CierreRe == {
    Words(<<<<"T", "O", "T", "A", "L">>, <<"A">>, <<"P", "A", "G", "A", "R">>>>),
    Words(<<<<"I", "M", "P", "U", "E", "S", "T", "O">>, <<"D", "E">>, <<"S", "E", "L", "L", "O", "S">>>>),
    Words(<<<<"I", "N", "T", "E", "R", "E", "S", "E", "S">>, <<"F", "I", "N", "A", "N", "C", "I", "A", "C", "I", "O", "N">>>>),
    Words(<<<<"D", "B">>, <<"I", "V", "A">>>>),
    Words(<<<<"P", "E", "R", "C", "E", "P", "C", "I", "O", "N">>, <<"I", "N", "G">>>>),
    Words(<<<<"P", "l", "a", "n">>, <<"V", ":">>>>),
    Words(<<<<"C", "u", "o", "t", "a", "s">>, <<"a">>, <<"v", "e", "n", "c", "e", "r">>>>),
    LitI(<<"T", "A", "R", "J", "E", "T", "A">>) \o Spaces1 \o <<Cls(Digit, 4, 4)>> \o Spaces1
        \o LitI(<<"T", "o", "t", "a", "l">>) }

\* IMPUESTO|INTERES|IVA\s+\d|PERCEPCION|COMISION|CARGO\s+FINANCIERO
CargoRe == {
    Words(<<<<"I", "M", "P", "U", "E", "S", "T", "O">>>>),
    Words(<<<<"I", "N", "T", "E", "R", "E", "S">>>>),
    LitI(<<"I", "V", "A">>) \o Spaces1 \o <<Cls(Digit, 1, 1)>>,
    Words(<<<<"P", "E", "R", "C", "E", "P", "C", "I", "O", "N">>>>),
    Words(<<<<"C", "O", "M", "I", "S", "I", "O", "N">>>>),
    Words(<<<<"C", "A", "R", "G", "O">>, <<"F", "I", "N", "A", "N", "C", "I", "E", "R", "O">>>>) }

\* ^(\d{2}-\w{2,3}-\d{2,4}): group 1 is items 2..6
LineDateRe == <<StartOfString, Cls(Digit, 2, 2), Cls({"-"}, 1, 1), Cls(WordCh, 2, 3),
                Cls({"-"}, 1, 1), Cls(Digit, 2, 4)>>
\* ^[*K]\s+
CardPrefixRe == <<StartOfString, Cls({"*", "K"}, 1, 1), Cls(Space, 1, Unbounded)>>
\* \b(\d{1,2})/(\d{2})\b: group 1 is item 2, group 2 is item 4
CuotaRe == <<WordBoundary, Cls(Digit, 1, 2), Cls({"/"}, 1, 1), Cls(Digit, 2, 2),
             WordBoundary>>
\* ([\d.,]+)\s*$: group 1 is item 1
AmountRe == <<Cls(AmountCh, 1, Unbounded), Cls(Space, 0, Unbounded), EndOfString>>
\* \s+\d{4,}\s*$
VoucherRe == <<Cls(Space, 1, Unbounded), Cls(Digit, 4, Unbounded),
               Cls(Space, 0, Unbounded), EndOfString>>
\* (\d{2}[-/]\w{2,3}[-/]\d{2,4})\s+.{3,50}\s+([\d.,]+)\s*$ under re.MULTILINE:
\* group 1 is items 1..5, group 2 is item 9
FallbackRe == <<Cls(Digit, 2, 2), Cls(DateSep, 1, 1), Cls(WordCh, 2, 3),
                Cls(DateSep, 1, 1), Cls(Digit, 2, 4), Cls(Space, 1, Unbounded),
                Cls(Dot, 3, 50), Cls(Space, 1, Unbounded),
                Cls(AmountCh, 1, Unbounded), Cls(Space, 0, Unbounded), EndOfLine>>
\* \d{2}[-/]\w{2,3}[-/]\d{2,4}|[\d.,]+\s*$, the alternatives in order
FallbackCleanRe == <<
    <<Cls(Digit, 2, 2), Cls(DateSep, 1, 1), Cls(WordCh, 2, 3), Cls(DateSep, 1, 1),
      Cls(Digit, 2, 4)>>,
    <<Cls(AmountCh, 1, Unbounded), Cls(Space, 0, Unbounded), EndOfString>> >>

RECURSIVE FirstAlt(_, _, _, _), FirstAltElse(_, _, _, _, _)
\* the match at position i of the first of the alternatives alts[a..] that
\* matches there, or <<>>
FirstAlt(alts, s, a, i) ==
    IF a > Len(alts) THEN <<>>
    ELSE FirstAltElse(alts, s, a, i, MatchFrom(alts[a], s, 1, i))
FirstAltElse(alts, s, a, i, r) ==
    IF r # <<>> THEN r ELSE FirstAlt(alts, s, a + 1, i)

RECURSIVE SubAll(_, _, _), SubNext(_, _, _, _)
\* re.sub(a1|a2|..., "", s) from position i on, for alternatives that match
\* no empty text: s without its leftmost non-overlapping matches
SubAll(alts, s, i) ==
    SubNext(alts, s, i, {j \in i..Len(s) : FirstAlt(alts, s, 1, j) # <<>>})
SubNext(alts, s, i, starts) ==
    IF starts = {} THEN SubSeq(s, i, Len(s))
    ELSE SubSeq(s, i, Min(starts) - 1)
             \o SubAll(alts, s, MEnd(FirstAlt(alts, s, 1, Min(starts))))

\* s without the text of the match r, when there is one
CutMatch(s, r) ==
    IF r = <<>> THEN s
    ELSE SubSeq(s, 1, MStart(r) - 1) \o SubSeq(s, MEnd(r), Len(s))
\* re.sub(p, "", s) for a pattern p that matches at most once in s
SubOnce(p, s) == CutMatch(s, Search(p, s))

RECURSIVE FindAll(_, _, _), FindNext(_, _, _)
\* re.finditer(p, s) from position i on: the non-overlapping matches, for a
\* pattern that matches no empty text
FindAll(p, s, i) == FindNext(p, s, SearchFrom(p, s, i))
FindNext(p, s, r) ==
    IF r = <<>> THEN <<>> ELSE <<r>> \o FindAll(p, s, MEnd(r))

\* ------------------------------------------------------------ the parsers

\* desc_raw[:80]
MaxDesc == 80
SinDescripcion == <<"S", "i", "n", " ", "d", "e", "s", "c", "r", "i", "p", "c", "i", "o", "n">>

\* the dict of a transaction; cuota is <<current, total>> or None
Record(tx_date, description, amount, cuota) ==
    [date |-> tx_date,
     description |-> description,
     amount |-> amount,
     type |-> "expense",
     installment_current |-> IF cuota = None THEN None ELSE Some(cuota[1]),
     installment_total |-> IF cuota = None THEN None ELSE Some(cuota[2]),
     installments_remaining |->
         IF cuota = None THEN None ELSE Some(cuota[2] - cuota[1])]

\* a variant of CuotaValid: c <= t is not asked for
CuotaValidAnyOrder(c, t) == 1 <= c /\ t > 1
\* 1 <= c <= t and t > 1
CuotaValid(c, t) == 1 <= c /\ c <= t /\ t > 1
\* <<c, t>> when it is a valid cuota, else None
CuotaChecked(c, t) == IF CuotaValid(c, t) THEN <<c, t>> ELSE None
\* the valid cuota <<c, t>> of the match cuota_match in rest, else None
CuotaOf(rest, cuota_match) ==
    IF cuota_match = <<>> THEN None
    ELSE CuotaChecked(IntVal(Group(rest, cuota_match, 2, 2)),
                      IntVal(Group(rest, cuota_match, 4, 4)))
\* a variant of CutCuota: the match is cut out whether valid or not
CutCuotaAlways(rest, cuota_match, cuota) ==
    IF cuota_match = <<>> THEN rest ELSE Strip(CutMatch(rest, cuota_match))
\* rest with the matched cuota cut out, when it is a valid one
CutCuota(rest, cuota_match, cuota) ==
    IF cuota = None THEN rest ELSE Strip(CutMatch(rest, cuota_match))

\* description = desc_raw[:80] or "Sin descripcion"
OrSinDescripcion(desc) == IF desc = <<>> THEN SinDescripcion ELSE desc
\* the description of what is left of the line before the amount
DescOf(before) ==
    OrSinDescripcion(Prefix(Strip(SubOnce(VoucherRe, Strip(before))), MaxDesc))

\* if amount <= 0: return None; else the dict
LineRecord(tx_date, description, amount, cuota) ==
    IF ~Positive(amount) THEN None
    ELSE Record(tx_date, description, amount, cuota)
\* if not amount_match: return None; else the amount and the description
LineAmount(tx_date, rest, cuota, amount_match) ==
    IF amount_match = <<>> THEN None
    ELSE LineRecord(tx_date, DescOf(SubSeq(rest, 1, MStart(amount_match) - 1)),
                    _parse_amount(Group(rest, amount_match, 1, 1)), cuota)
\* the line from the search of the amount on, rest being what the cuota left
LineRest(tx_date, rest, cuota) ==
    LineAmount(tx_date, rest, cuota, Search(AmountRe, rest))
\* the line from the validation of the cuota match on
LineCuota(tx_date, rest, cuota_match) ==
    LineRest(tx_date, CutCuota(rest, cuota_match, CuotaOf(rest, cuota_match)),
             CuotaOf(rest, cuota_match))
\* if not tx_date: return None; else the line from the search of the cuota on
LineDated(tx_date, rest) ==
    IF tx_date = Raise THEN RaiseDict
    ELSE IF tx_date = None THEN None
    ELSE LineCuota(tx_date, rest, Search(CuotaRe, rest))
\* the line after its date, stripped, without the card prefix
RestOf(line, date_match) ==
    SubOnce(CardPrefixRe, Strip(SubSeq(line, MEnd(date_match), Len(line))))
\* if not date_match: return None; else the line from its date on
LineMatched(line, date_match) ==
    IF date_match = <<>> THEN None
    ELSE LineDated(_parse_date_es(Group(line, date_match, 2, 6)),
                   RestOf(line, date_match))
\* _parse_transaction_line: the record of a line, None, or the ValueError
\* of _parse_date_es
_parse_transaction_line(line) == LineMatched(line, Match(LineDateRe, line))

\* the description the fallback gives a match m.group(0)
FallbackDesc(g0) == Prefix(Strip(SubAll(FallbackCleanRe, g0, 1)), MaxDesc)
\* tx_date, amount of a match m of the fallback pattern
FallbackDate(text, m) == _parse_date_es(Group(text, m, 1, 5))
FallbackAmount(text, m) == _parse_amount(Group(text, m, 9, 9))
\* if tx_date and amount > 0
FallbackKeeps(tx_date, amount) == tx_date # None /\ Positive(amount)
\* the record of one kept match
FallbackRecord(text, m) ==
    Record(FallbackDate(text, m),
           FallbackDesc(SubSeq(text, MStart(m), MEnd(m) - 1)),
           FallbackAmount(text, m), None)
\* the records of the kept matches, in order
FallbackRecords(text, kept) ==
    [j \in 1..Len(kept) |-> FallbackRecord(text, kept[j])]
\* the matches among ms that give a record, in order
FallbackKept(text, ms) ==
    SelectSeq(ms, LAMBDA m : FallbackKeeps(FallbackDate(text, m),
                                           FallbackAmount(text, m)))
\* the results of the matches ms, or the ValueError of _parse_date_es on one
FallbackResults(text, ms) ==
    IF \E j \in 1..Len(ms) : FallbackDate(text, ms[j]) = Raise THEN RaiseList
    ELSE FallbackRecords(text, FallbackKept(text, ms))
\* _fallback_regex_parse: the records of the matches, or the ValueError of
\* _parse_date_es on one of them
_fallback_regex_parse(text) == FallbackResults(text, FindAll(FallbackRe, text, 1))

\* ------------------------------------------------------------ extract_upcoming_installments

_MESES_ES_FULL == <<
    <<<<"e", "n", "e", "r", "o">>, 1>>,
    <<<<"f", "e", "b", "r", "e", "r", "o">>, 2>>,
    <<<<"m", "a", "r", "z", "o">>, 3>>,
    <<<<"a", "b", "r", "i", "l">>, 4>>,
    <<<<"m", "a", "y", "o">>, 5>>,
    <<<<"j", "u", "n", "i", "o">>, 6>>,
    <<<<"j", "u", "l", "i", "o">>, 7>>,
    <<<<"a", "g", "o", "s", "t", "o">>, 8>>,
    <<<<"s", "e", "p", "t", "i", "e", "m", "b", "r", "e">>, 9>>,
    <<<<"s", "e", "t", "i", "e", "m", "b", "r", "e">>, 9>>,
    <<<<"o", "c", "t", "u", "b", "r", "e">>, 10>>,
    <<<<"n", "o", "v", "i", "e", "m", "b", "r", "e">>, 11>>,
    <<<<"d", "i", "c", "i", "e", "m", "b", "r", "e">>, 12>> >>

\* Cuotas\s+a\s+vencer\s*: under re.IGNORECASE, the head of the block pattern
VencerRe ==
    Words(<<<<"C", "u", "o", "t", "a", "s">>, <<"a">>, <<"v", "e", "n", "c", "e", "r">>>>)
        \o <<Cls(Space, 0, Unbounded), Cls({":"}, 1, 1)>>
\* (\w+)/(\d{2,4}): group 1 is item 1, group 2 is item 3
MonthYearRe == <<Cls(WordCh, 1, Unbounded), Cls({"/"}, 1, 1), Cls(Digit, 2, 4)>>
\* \$\s*([\d.,]+): group 1 is item 3
DollarRe == <<Cls({"$"}, 1, 1), Cls(Space, 0, Unbounded), Cls(AmountCh, 1, Unbounded)>>
\* A\s+partir\s+de\s+(\w+)/(\d{2,4})\s+\$([\d.,]+) under re.IGNORECASE:
\* group 1 is item 13, group 2 is item 15, group 3 is item 18
PartirRe ==
    Words(<<<<"A">>, <<"p", "a", "r", "t", "i", "r">>, <<"d", "e">>>>) \o Spaces1
        \o <<Cls(WordCh, 1, Unbounded), Cls({"/"}, 1, 1), Cls(Digit, 2, 4),
             Cls(Space, 1, Unbounded), Cls({"$"}, 1, 1), Cls(AmountCh, 1, Unbounded)>>

\* where (.*?)(?:\n\n|\Z) under re.DOTALL stops from position i on: the
\* first blank line, or the end of the text
BlockEnd(text, i) ==
    Min({k \in i..(Len(text) + 1) :
            \/ k = Len(text) + 1
            \/ k < Len(text) /\ text[k] = "\n" /\ text[k + 1] = "\n"})
\* vencer_match.group(1)
BlockOf(text, vencer_match) ==
    SubSeq(text, MEnd(vencer_match), BlockEnd(text, MEnd(vencer_match)) - 1)

\* re.findall of a pattern with groups at items a and z: the pairs of texts
GroupPairs(s, ms, a, z) ==
    [k \in 1..Len(ms) |-> <<Group(s, ms[k], a, a), Group(s, ms[k], z, z)>>]
\* re.findall of a pattern with one group at item a: the texts
GroupTexts(s, ms, a) == [k \in 1..Len(ms) |-> Group(s, ms[k], a, a)]
\* re.findall(r"(\w+)/(\d{2,4})", block)
MonthsFound(block_text) == GroupPairs(block_text, FindAll(MonthYearRe, block_text, 1), 1, 3)
\* re.findall(r"\$\s*([\d.,]+)", block)
AmountsFound(block_text) == GroupTexts(block_text, FindAll(DollarRe, block_text, 1), 3)

\* a variant of DictSet: the pair always goes last
DictSetAppend(d, k, v) == Append(d, <<k, v>>)

\* d[k] = v on a dict: a new key goes last, a known key keeps its place
DictSet(d, k, v) ==
    IF DictHas(d, k)
    THEN [j \in 1..Len(d) |-> IF d[j][1] = k THEN <<k, v>> ELSE d[j]]
    ELSE Append(d, <<k, v>>)

\* _MESES_ES_FULL.get(month_name.lower())
MonthNum(month_name) ==
    IF DictHas(_MESES_ES_FULL, LowerStr(month_name))
    THEN Some(DictVal(_MESES_ES_FULL, LowerStr(month_name)))
    ELSE None
\* f"{year}-{month_num:02d}" after year += 2000 for a year below 100
MonthKey(year_str, month_num) ==
    Pad(Century(IntVal(year_str)), 1) \o <<"-">> \o Pad(month_num, 2)

\* the body of the loop for months_found[k] (k counts from 1, i from 0)
MonthEntry(d, k, months, amounts) ==
    IF MonthNum(months[k][1]) = None THEN d
    ELSE IF k <= Len(amounts)
         THEN DictSet(d, MonthKey(months[k][2], MonthNum(months[k][1])[1]),
                      _parse_amount(amounts[k]))
         ELSE d

\* a variant of PartirEntry: the entry goes under the plain key
PartirEntryPlain(d, block_text, partir_match) ==
    IF partir_match = <<>> THEN d
    ELSE IF MonthNum(Group(block_text, partir_match, 13, 13)) = None THEN d
    ELSE DictSet(d,
                 MonthKey(Group(block_text, partir_match, 15, 15),
                          MonthNum(Group(block_text, partir_match, 13, 13))[1]),
                 _parse_amount(Group(block_text, partir_match, 18, 18)))

\* what follows the loop, for partir_match
PartirEntry(d, block_text, partir_match) ==
    IF partir_match = <<>> THEN d
    ELSE IF MonthNum(Group(block_text, partir_match, 13, 13)) = None THEN d
    ELSE DictSet(d,
                 MonthKey(Group(block_text, partir_match, 15, 15),
                          MonthNum(Group(block_text, partir_match, 13, 13))[1])
                     \o <<"+">>,
                 _parse_amount(Group(block_text, partir_match, 18, 18)))

RECURSIVE MonthEntries(_, _, _, _)
\* the loop over months_found from entry k on
MonthEntries(d, k, months, amounts) ==
    IF k > Len(months) THEN d
    ELSE MonthEntries(MonthEntry(d, k, months, amounts), k + 1, months, amounts)

\* the dict of a block
UpcomingOfBlock(block_text) ==
    PartirEntry(MonthEntries(<<>>, 1, MonthsFound(block_text), AmountsFound(block_text)),
                block_text, Search(PartirRe, block_text))
\* the dict of a text whose block pattern matched, or {} when it did not
UpcomingOfMatch(text, vencer_match) ==
    IF vencer_match = <<>> THEN <<>> ELSE UpcomingOfBlock(BlockOf(text, vencer_match))
\* extract_upcoming_installments(content) for content["text"] = text: the
\* dict as the sequence of its <<key, value>> pairs in insertion order
extract_upcoming_installments(text) == UpcomingOfMatch(text, Search(VencerRe, text))

\* ------------------------------------------------------------ input texts

\* The lines the texts of the model are made of: those of the fixtures of
\* tests/test_pdf_parser_logic.py and variants of them.
LBanner ==
    <<"D", "E", "T", "A", "L", "L", "E", " ", "D", "E", "L", " ", "C", "O",
      "N", "S", "U", "M", "O">>

LBlank ==
    <<>>

LTotal ==
    <<"T", "O", "T", "A", "L", " ", "A", " ", "P", "A", "G", "A", "R", " ",
      "$", "3", "1", ".", "5", "9", "9", ",", "0", "0">>

LImpuesto ==
    <<"1", "6", "-", "1", "0", "-", "2", "4", " ", "K", " ", "I", "M", "P",
      "U", "E", "S", "T", "O", " ", "P", "A", "I", "S", " ", "1", "1", "1",
      "1", "1", "1", " ", "1", "0", "0", ",", "0", "0">>

LLacoste ==
    <<"1", "5", "-", "1", "0", "-", "2", "4", " ", "*", " ", "M", "E", "R",
      "P", "A", "G", "O", "*", "L", "A", "C", "O", "S", "T", "E", " ", "0",
      "3", "/", "0", "6", " ", "0", "0", "1", "2", "9", "8", " ", "1", "0",
      ".", "0", "0", "0", ",", "0", "0">>

LDisney ==
    <<"2", "0", "-", "0", "1", "-", "2", "6", " ", "K", " ", "D", "I", "S",
      "N", "E", "Y", " ", "P", "L", "U", "S", " ", "0", "5", "2", "0", "8",
      "4", " ", "1", "8", ".", "3", "9", "9", ",", "0", "0">>

LSellos ==
    <<"1", "6", "-", "1", "0", "-", "2", "4", " ", "I", "M", "P", "U", "E",
      "S", "T", "O", " ", "D", "E", " ", "S", "E", "L", "L", "O", "S", " ",
      "5", "0", ",", "0", "0">>

LCero ==
    <<"1", "5", "-", "0", "1", "-", "2", "6", " ", "*", " ", "C", "O", "M",
      "E", "R", "C", "I", "O", " ", "1", "2", "3", "4", "5", "6", " ", "0",
      ",", "0", "0">>

LSinMonto ==
    <<"1", "5", "-", "1", "0", "-", "2", "4", " ", "C", "O", "M", "P", "R",
      "A">>

LSoloMonto ==
    <<"7", ",", "0", "0">>

LDia32 ==
    <<"3", "2", "-", "0", "1", "-", "2", "6", " ", "*", " ", "C", "O", "M",
      "E", "R", "C", "I", "O", " ", "1", "2", "3", "4", "5", "6", " ", "1",
      ",", "0", "0">>

LMesXx ==
    <<"1", "5", "-", "x", "x", "-", "2", "4", " ", "C", "O", "M", "E", "R",
      "C", "I", "O", " ", "1", ",", "0", "0">>

LMesSup ==
    <<"1", "5", "-", "²", "²", "-", "2", "4", " ", "C", "O", "M", "E", "R",
      "C", "I", "O", " ", "1", ",", "0", "0">>

LCuota3de6 ==
    <<"1", "0", "-", "0", "2", "-", "2", "6", " ", "*", " ", "T", "I", "E",
      "N", "D", "A", " ", "A", "B", "C", " ", "3", "/", "6", " ", "1", "2",
      "3", "4", "5", "6", " ", "5", "0", "0", ",", "0", "0">>

LCuota1de1 ==
    <<"1", "0", "-", "0", "2", "-", "2", "6", " ", "*", " ", "T", "I", "E",
      "N", "D", "A", " ", "A", "B", "C", " ", "1", "/", "1", " ", "1", "2",
      "3", "4", "5", "6", " ", "5", "0", "0", ",", "0", "0">>

LCuota1de01 ==
    <<"1", "0", "-", "0", "2", "-", "2", "6", " ", "*", " ", "T", "I", "E",
      "N", "D", "A", " ", "A", "B", "C", " ", "1", "/", "0", "1", " ", "1",
      "2", "3", "4", "5", "6", " ", "5", "0", "0", ",", "0", "0">>

LCuota0de12 ==
    <<"1", "0", "-", "0", "2", "-", "2", "6", " ", "*", " ", "T", "I", "E",
      "N", "D", "A", " ", "A", "B", "C", " ", "0", "0", "/", "1", "2", " ",
      "1", "2", "3", "4", "5", "6", " ", "5", "0", "0", ",", "0", "0">>

LCuota7de03 ==
    <<"1", "0", "-", "0", "2", "-", "2", "6", " ", "*", " ", "T", "I", "E",
      "N", "D", "A", " ", "A", "B", "C", " ", "0", "7", "/", "0", "3", " ",
      "1", "2", "3", "4", "5", "6", " ", "5", "0", "0", ",", "0", "0">>

LCuota12de12 ==
    <<"1", "5", "-", "1", "0", "-", "2", "4", " ", "*", " ", "M", "E", "R",
      "P", "A", "G", "O", "*", "I", "V", "M", "A", "C", "O", "G", "L", "O",
      "B", "A", "L", "G", "R", "O", "U", "P", " ", "1", "2", "/", "1", "2",
      " ", "6", "6", "4", "7", "1", "9", " ", "3", ".", "4", "2", "3", ",",
      "5", "0">>

LDosFechas ==
    <<"1", "5", "-", "1", "0", "-", "2", "4", " ", "1", "6", "-", "1", "0",
      "-", "2", "4", " ", "5", ",", "0", "0">>

LLarga ==
    <<"1", "0", "-", "0", "2", "-", "2", "6", " ", "*", " ", "A", "A", "A",
      "A", "A", "A", "A", "A", "A", "A", "A", "A", "A", "A", "A", "A", "A",
      "A", "A", "A", "A", "A", "A", "A", "A", "A", "A", "A", "A", "A", "A",
      "A", "A", "A", "A", "A", "A", "A", "A", "A", "A", "A", "A", "A", "A",
      "A", "A", "A", "A", "A", "A", "A", "A", "A", "A", "A", "A", "A", "A",
      "A", "A", "A", "A", "A", "A", "A", "A", "A", "A", "A", "A", "A", "A",
      "A", "A", "A", "A", "A", "A", "A", "A", "A", "A", "A", "A", "A", "A",
      "A", "A", "A", " ", "9", "9", "9", "9", "9", "9", " ", "1", "0", "0",
      ",", "0", "0">>

LMontoMalo ==
    <<"1", "0", "-", "0", "2", "-", "2", "6", " ", "C", "O", "M", "P", "R",
      "A", " ", "1", ".", "2", ".", "3">>

LShell ==
    <<" ", " ", "2", "3", "-", "N", "o", "v", "-", "2", "5", " ", "*", " ",
      "S", "H", "E", "L", "L", " ", "S", "E", "L", "E", "C", "T", " ", "0",
      "0", "7", "7", "7", "7", " ", "3", ".", "2", "0", "0", ",", "0", "0",
      " ">>

LSinDesc ==
    <<"1", "0", "-", "0", "2", "-", "2", "6", " ", "5", "0", "0", ",", "0",
      "0">>

LAnio245 ==
    <<"1", "5", "-", "1", "0", "-", "2", "4", "5", " ", "C", "O", "M", "P",
      "R", "A", " ", "1", ",", "0", "0">>

LBarra ==
    <<"1", "5", "/", "1", "0", "/", "2", "0", "2", "4", " ", "C", "O", "M",
      "P", "R", "A", " ", "1", ",", "0", "0">>

LSoloComprobante ==
    <<"1", "0", "-", "0", "2", "-", "2", "6", " ", "1", "2", "3", "4", "5",
      "6", " ", "5", "0", "0", ",", "0", "0">>

LGodiva ==
    <<"1", "5", "-", "1", "0", "-", "2", "4", " ", "*", " ", "G", "O", "D",
      "I", "V", "A", " ", "6", "6", "4", "7", "1", "9", " ", "3", ".", "4",
      "2", "3", ",", "5", "0">>

LPinterest ==
    <<"2", "0", "-", "0", "1", "-", "2", "6", " ", "K", " ", "P", "I", "N",
      "T", "E", "R", "E", "S", "T", " ", "0", "5", "2", "0", "8", "4", " ",
      "1", "8", ",", "0", "0">>

CoreLines == {LBanner, LBlank, LTotal, LImpuesto, LLacoste, LDisney}
ExtraLines == {
    LSellos, LCero, LSinMonto, LSoloMonto, LDia32, LMesXx, LMesSup,
    LCuota3de6, LCuota1de1, LCuota1de01, LCuota0de12, LCuota7de03,
    LCuota12de12, LDosFechas, LLarga, LMontoMalo, LShell, LSinDesc, LAnio245, LBarra,
    LSoloComprobante, LGodiva, LPinterest}

\* the most lines of a text made of CoreLines
MaxLines == 4

RECURSIVE Join(_)
\* "\n".join(ls)
Join(ls) ==
    IF ls = <<>> THEN <<>>
    ELSE IF Len(ls) = 1 THEN ls[1]
    ELSE ls[1] \o <<"\n">> \o Join(Tail(ls))

\* texts of up to MaxLines core lines, and texts with one of the other lines:
\* after the banner or not, followed by one more line or not
Texts ==
    {Join(ls) : ls \in UNION {[1..n -> CoreLines] : n \in 0..MaxLines}}
    \cup {Join(pre \o <<x>> \o post) :
              pre \in {<<>>, <<LBanner>>},
              x \in ExtraLines,
              post \in {<<>>} \cup {<<y>> : y \in CoreLines \cup ExtraLines}}

\* ------------------------------------------------------------ extract_structured_transactions

VARIABLES
    content,      \* the argument: a dict with the text
    lines,        \* content["text"].splitlines()
    lineno,       \* the position of the for loop in lines
    in_detalle,   \* the state of the scan: inside the detail section
    results,      \* the list built so far, then the list returned
    pc,           \* "scan", "done" (returned), "raised" (ValueError)
    origin,       \* history: for each record of the scan, the line it is from
    via,          \* history: "structural" or "fallback", what results is from
    handed,       \* history: the lines given to _parse_transaction_line
    inside,       \* history: in_detalle after each line read so far
    arg,          \* the argument of a call of _parse_amount
    ret,          \* what the call returned
    upcoming,     \* extract_upcoming_installments: the dict built so far
    upc,          \* its position: "idle", "call", "loop", "done"
    block,        \* its block: vencer_match.group(1)
    months_found, \* its list of (month_name, year_str)
    amounts_found, \* its list of amount texts
    mi,           \* the position of its loop in months_found (i + 1)
    reply,        \* parse_pdf_transactions: json.loads of what the LLM answers
    structured_txs, \* its list from extract_structured_transactions
    out,          \* the list it returns
    ppc,          \* its position: "idle", "call", "extracted", "done", "raised"
    llm_calls,    \* history: how many times it has called the LLM
    prompts       \* history: the calls by their prompt, "categorize" or "extract"

\* the variables of extract_upcoming_installments
upvars == <<upcoming, upc, block, months_found, amounts_found, mi>>
\* the variables of extract_structured_transactions
scanvars == <<lines, lineno, in_detalle, results, pc, origin, via, handed, inside>>

\* the variables of parse_pdf_transactions
llmvars == <<reply, structured_txs, out, ppc, llm_calls, prompts>>

vars == <<content, lines, lineno, in_detalle, results, pc, origin, via, handed, inside,
          arg, ret, upcoming, upc, block, months_found, amounts_found, mi, reply,
          structured_txs, out, ppc, llm_calls, prompts>>

\* no call of parse_pdf_transactions
LlmIdle ==
    /\ reply = <<>>
    /\ structured_txs = <<>>
    /\ out = <<>>
    /\ ppc = "idle"
    /\ llm_calls = 0
    /\ prompts = <<>>

\* no call of extract_upcoming_installments
UpIdle ==
    /\ upcoming = <<>>
    /\ upc = "idle"
    /\ block = <<>>
    /\ months_found = <<>>
    /\ amounts_found = <<>>
    /\ mi = 1

Init ==
    /\ content \in {[text |-> x] : x \in Texts}
    /\ lines = SplitLines(content.text)
    /\ lineno = 1
    /\ in_detalle = FALSE
    /\ results = <<>>
    /\ pc = "scan"
    /\ origin = <<>>
    /\ via = "structural"
    /\ handed = {}
    /\ inside = <<>>
    /\ arg = <<>>
    /\ ret = None
    /\ UpIdle
    /\ LlmIdle

\* line = line.strip() of the line the loop is at
Line == Strip(lines[lineno])
Reading == pc = "scan" /\ lineno <= Len(lines)

IsDetalle(x) == SearchAlt(DetalleRe, x)
\* a variant of IsCierre: a financial charge closes the section too
IsCierreOCargo(x) == SearchAlt(CierreRe, x) \/ SearchAlt(CargoRe, x)
IsCierre(x) == SearchAlt(CierreRe, x)
IsCargo(x) == SearchAlt(CargoRe, x)

\* the loop goes on to the next line in state st (history: inside)
Continue(st) ==
    /\ lineno' = lineno + 1
    /\ in_detalle' = st
    /\ inside' = Append(inside, st)
    /\ UNCHANGED <<content, lines, pc, via, arg, ret, upvars, llmvars>>

\* if not line: continue
SkipBlank ==
    /\ Reading
    /\ Line = <<>>
    /\ Continue(in_detalle)
    /\ UNCHANGED <<results, origin, handed>>

\* the banner: in_detalle = True
EnterDetalle ==
    /\ Reading
    /\ Line # <<>>
    /\ IsDetalle(Line)
    /\ Continue(TRUE)
    /\ UNCHANGED <<results, origin, handed>>

\* a closing line inside the section: in_detalle = False
LeaveDetalle ==
    /\ Reading
    /\ Line # <<>>
    /\ ~IsDetalle(Line)
    /\ in_detalle /\ IsCierre(Line)
    /\ Continue(FALSE)
    /\ UNCHANGED <<results, origin, handed>>

\* a financial charge inside the section is passed over
SkipCargo ==
    /\ Reading
    /\ Line # <<>>
    /\ ~IsDetalle(Line)
    /\ in_detalle /\ ~IsCierre(Line) /\ IsCargo(Line)
    /\ Continue(in_detalle)
    /\ UNCHANGED <<results, origin, handed>>

\* if not in_detalle: continue
SkipOutside ==
    /\ Reading
    /\ Line # <<>>
    /\ ~IsDetalle(Line)
    /\ ~in_detalle
    /\ Continue(in_detalle)
    /\ UNCHANGED <<results, origin, handed>>

\* a variant of Parsed: results = [tx] instead of results.append(tx)
ParsedOnly(tx) ==
    IF tx = RaiseDict
    THEN /\ pc' = "raised"
         /\ UNCHANGED <<content, lines, lineno, in_detalle, results, origin, via,
                        inside, arg, ret, upvars, llmvars>>
    ELSE /\ results' = IF tx = None THEN results ELSE <<tx>>
         /\ origin' = IF tx = None THEN origin ELSE Append(origin, lineno)
         /\ Continue(in_detalle)

\* if tx: results.append(tx), or the ValueError leaves the function
Parsed(tx) ==
    IF tx = RaiseDict
    THEN /\ pc' = "raised"
         /\ UNCHANGED <<content, lines, lineno, in_detalle, results, origin, via,
                        inside, arg, ret, upvars, llmvars>>
    ELSE /\ results' = IF tx = None THEN results ELSE Append(results, tx)
         /\ origin' = IF tx = None THEN origin ELSE Append(origin, lineno)
         /\ Continue(in_detalle)

\* a variant of ParseLine: without "if not in_detalle: continue"
ParseLineAnywhere ==
    /\ Reading
    /\ Line # <<>>
    /\ ~IsDetalle(Line)
    /\ in_detalle => ~IsCierre(Line) /\ ~IsCargo(Line)
    /\ handed' = handed \cup {lineno}
    /\ Parsed(_parse_transaction_line(Line))

\* tx = _parse_transaction_line(line, today_str); if tx: results.append(tx)
ParseLine ==
    /\ Reading
    /\ Line # <<>>
    /\ ~IsDetalle(Line)
    /\ in_detalle /\ ~IsCierre(Line) /\ ~IsCargo(Line)
    /\ handed' = handed \cup {lineno}
    /\ Parsed(_parse_transaction_line(Line))

\* the loop is over with results: return results
ReturnResults ==
    /\ pc = "scan"
    /\ lineno > Len(lines)
    /\ results # <<>>
    /\ pc' = "done"
    /\ UNCHANGED <<content, lines, lineno, in_detalle, results, origin, via, handed,
                   inside, arg, ret, upvars, llmvars>>

\* return results, or the ValueError leaves the function
Returned(fb) ==
    IF fb = RaiseList
    THEN pc' = "raised" /\ UNCHANGED results
    ELSE pc' = "done" /\ results' = fb

\* a variant of Fallback: without "if not results"
FallbackAlways ==
    /\ pc = "scan"
    /\ lineno > Len(lines)
    /\ via' = "fallback"
    /\ Returned(_fallback_regex_parse(content.text))
    /\ UNCHANGED <<content, lines, lineno, in_detalle, origin, handed, inside, arg,
                   ret, upvars, llmvars>>

\* the loop is over without: results = _fallback_regex_parse(content["text"])
Fallback ==
    /\ pc = "scan"
    /\ lineno > Len(lines)
    /\ results = <<>>
    /\ via' = "fallback"
    /\ Returned(_fallback_regex_parse(content.text))
    /\ UNCHANGED <<content, lines, lineno, in_detalle, origin, handed, inside, arg,
                   ret, upvars, llmvars>>

Next ==
    \/ SkipBlank
    \/ EnterDetalle
    \/ LeaveDetalle
    \/ SkipCargo
    \/ SkipOutside
    \/ ParseLine
    \/ ReturnResults
    \/ Fallback

Spec == Init /\ [][Next]_vars

RECURSIVE ScanFrom(_, _, _, _), ScanLine(_, _, _, _, _), ScanTx(_, _, _, _, _)
\* the loop from line k on, in state st with the results acc: the results at
\* its end, or the ValueError
ScanFrom(ls, k, st, acc) ==
    IF k > Len(ls) THEN acc ELSE ScanLine(ls, k, st, acc, Strip(ls[k]))
\* the body of the loop for the stripped line
ScanLine(ls, k, st, acc, line) ==
    IF line = <<>> THEN ScanFrom(ls, k + 1, st, acc)
    ELSE IF IsDetalle(line) THEN ScanFrom(ls, k + 1, TRUE, acc)
    ELSE IF st /\ IsCierre(line) THEN ScanFrom(ls, k + 1, FALSE, acc)
    ELSE IF st /\ IsCargo(line) THEN ScanFrom(ls, k + 1, st, acc)
    ELSE IF ~st THEN ScanFrom(ls, k + 1, st, acc)
    ELSE ScanTx(ls, k, st, acc, _parse_transaction_line(line))
\* if tx: results.append(tx)
ScanTx(ls, k, st, acc, tx) ==
    IF tx = RaiseDict THEN RaiseList
    ELSE ScanFrom(ls, k + 1, st, IF tx = None THEN acc ELSE Append(acc, tx))
\* if not results: results = _fallback_regex_parse(content["text"], today_str)
ScanOrFallback(text, scanned) ==
    IF scanned = RaiseList THEN RaiseList
    ELSE IF scanned # <<>> THEN scanned
    ELSE _fallback_regex_parse(text)
\* extract_structured_transactions(content) for content["text"] = text, as
\* one function of the text: the list, or RaiseList for the ValueError
extract_structured_transactions(text) ==
    ScanOrFallback(text, ScanFrom(SplitLines(text), 1, FALSE, <<>>))

\* ------------------------------------------------------------ _parse_amount

\* the characters of the amount tokens
TokenCh == {"0", "1", ".", ",", "-", "a"}
\* the most characters of an amount token
MaxTokLen == 3
Tokens == UNION {[1..n -> TokenCh] : n \in 0..MaxTokLen}

\* tokens of TestParseAmount, and one written with the comma first
TestTokens == {
    <<"3", ".", "4", "2", "3", ",", "5", "0">>,
    <<"1", "2", "3", "4", ",", "5", "6">>,
    <<"1", "2", "3", "4", ".", "5", "6">>,
    <<"$", "5", ".", "0", "0", "0", ",", "0", "0">>,
    <<"1", ",", "2", "3", "4", ".", "5", "6">>}

InitAmount ==
    /\ arg \in Tokens \cup TestTokens
    /\ ret = None
    /\ pc = "call"
    /\ content = [text |-> <<>>]
    /\ lines = <<>>
    /\ lineno = 1
    /\ in_detalle = FALSE
    /\ results = <<>>
    /\ origin = <<>>
    /\ via = "structural"
    /\ handed = {}
    /\ inside = <<>>
    /\ UpIdle
    /\ LlmIdle

\* ret = _parse_amount(arg)
CallParseAmount ==
    /\ pc = "call"
    /\ ret' = _parse_amount(arg)
    /\ pc' = "returned"
    /\ UNCHANGED <<content, lines, lineno, in_detalle, results, origin, via, handed,
                   inside, arg, upvars, llmvars>>

NextAmount == CallParseAmount

SpecAmount == InitAmount /\ [][NextAmount]_vars

\* ------------------------------------------------------------ _parse_date_es

\* the parts of the date tokens: days, months and years, good and bad
DateParts == {
    <<>>, <<"1", "5">>, <<"3", "2">>, <<"a", "b">>, <<"0">>, <<"1", "0">>,
    <<"1", "3">>, <<"O", "c", "t">>, <<"x", "x">>, <<"²", "²">>, <<"2", "4">>,
    <<"2", "4", "5">>, <<"2", "0", "2", "4">>}
\* the most parts of a date token
MaxParts == 3

RECURSIVE JoinParts(_, _)
\* sep.join(parts)
JoinParts(parts, sep) ==
    IF Len(parts) = 0 THEN <<>>
    ELSE IF Len(parts) = 1 THEN parts[1]
    ELSE parts[1] \o <<sep>> \o JoinParts(Tail(parts), sep)

DateTokens ==
    {JoinParts(parts, sep) :
        parts \in UNION {[1..n -> DateParts] : n \in 1..MaxParts}, sep \in DateSep}

InitDate ==
    /\ arg \in DateTokens
    /\ ret = None
    /\ pc = "call"
    /\ content = [text |-> <<>>]
    /\ lines = <<>>
    /\ lineno = 1
    /\ in_detalle = FALSE
    /\ results = <<>>
    /\ origin = <<>>
    /\ via = "structural"
    /\ handed = {}
    /\ inside = <<>>
    /\ UpIdle
    /\ LlmIdle

\* ret = _parse_date_es(arg), or its ValueError leaves the function
CallParseDate ==
    /\ pc = "call"
    /\ ret' = _parse_date_es(arg)
    /\ pc' = IF ret' = Raise THEN "raised" ELSE "returned"
    /\ UNCHANGED <<content, lines, lineno, in_detalle, results, origin, via, handed,
                   inside, arg, upvars, llmvars>>

NextDate == CallParseDate

SpecDate == InitDate /\ [][NextDate]_vars

\* ------------------------------------------------------------ extract_upcoming_installments, the calls

\* the label of the block and the pieces of the texts
UHead ==
    <<"C", "u", "o", "t", "a", "s", " ", "a", " ", "v", "e", "n", "c", "e",
      "r", ":">>

UMarzo26 ==
    <<"M", "a", "r", "z", "o", "/", "2", "6">>

UAbril2026 ==
    <<"A", "b", "r", "i", "l", "/", "2", "0", "2", "6">>

UMayo245 ==
    <<"M", "a", "y", "o", "/", "2", "4", "5">>

UCuota03de06 ==
    <<"0", "3", "/", "0", "6">>

UMonto10000 ==
    <<"$", "1", "0", ".", "0", "0", "0", ",", "0", "0">>

UMonto5 ==
    <<"$", "5", ",", "0", "0">>

UPartir ==
    <<"A", " ", "p", "a", "r", "t", "i", "r", " ", "d", "e", " ", "J", "u",
      "n", "i", "o", "/", "2", "6", " ", "$", "5", "6", ".", "6", "6", "3",
      ",", "0", "0">>

UPartirJulio ==
    <<"A", " ", "p", "a", "r", "t", "i", "r", " ", "d", "e", " ", "J", "u",
      "l", "i", "o", "/", "2", "7", " ", "$", "7", ",", "0", "0">>

UCorte ==
    <<"\n", "\n">>

UTotal ==
    <<"T", "o", "t", "a", "l">>

Pieces == {UMarzo26, UAbril2026, UMayo245, UCuota03de06, UMonto10000, UMonto5,
           UPartir, UPartirJulio, UCorte, UTotal}
\* the most pieces of a text
MaxPieces == 3

\* amount tokens that are no number
UMontoPunto ==
    <<"$", ".">>

UMontoComa ==
    <<"$", ",">>

\* blocks of one month, an amount token that is no number, and nothing or an
\* amount after it
BadAmountTexts ==
    {JoinParts(<<UHead, UMarzo26, bad>> \o post, " ") :
        bad \in {UMontoPunto, UMontoComa},
        post \in {<<>>, <<UMonto5>>, <<UAbril2026, UMonto5>>}}

\* the label and up to MaxPieces pieces, or no label and at most one piece
UpTexts ==
    {JoinParts(<<UHead>> \o ps, " ") :
        ps \in UNION {[1..n -> Pieces] : n \in 0..MaxPieces}}
    \cup {<<>>} \cup Pieces \cup BadAmountTexts

InitUpcoming ==
    /\ content \in {[text |-> x] : x \in UpTexts}
    /\ upcoming = <<>>
    /\ upc = "call"
    /\ block = <<>>
    /\ months_found = <<>>
    /\ amounts_found = <<>>
    /\ mi = 1
    /\ LlmIdle
    /\ lines = <<>>
    /\ lineno = 1
    /\ in_detalle = FALSE
    /\ results = <<>>
    /\ pc = "idle"
    /\ origin = <<>>
    /\ via = "structural"
    /\ handed = {}
    /\ inside = <<>>
    /\ arg = <<>>
    /\ ret = None

\* if not vencer_match: return upcoming
NoBlock ==
    /\ upc = "call"
    /\ Search(VencerRe, content.text) = <<>>
    /\ upc' = "done"
    /\ UNCHANGED <<content, scanvars, llmvars, arg, ret, upcoming, block, months_found,
                   amounts_found, mi>>

\* a variant of Found: a text without the label is taken as the block
FoundOrWhole(vencer_match) ==
    /\ block' = IF vencer_match = <<>> THEN content.text
                ELSE BlockOf(content.text, vencer_match)
    /\ months_found' = MonthsFound(block')
    /\ amounts_found' = AmountsFound(block')

\* block, months_found and amounts_found of the match
Found(vencer_match) ==
    /\ vencer_match # <<>>
    /\ block' = BlockOf(content.text, vencer_match)
    /\ months_found' = MonthsFound(block')
    /\ amounts_found' = AmountsFound(block')
\* a variant of FindBlock: the block is written back into the content
FindBlockInPlace ==
    /\ upc = "call"
    /\ Found(Search(VencerRe, content.text))
    /\ content' = [text |-> block']
    /\ mi' = 1
    /\ upc' = "loop"
    /\ UNCHANGED <<scanvars, llmvars, arg, ret, upcoming>>

\* block = vencer_match.group(1) and the two findall
FindBlock ==
    /\ upc = "call"
    /\ Found(Search(VencerRe, content.text))
    /\ mi' = 1
    /\ upc' = "loop"
    /\ UNCHANGED <<content, scanvars, llmvars, arg, ret, upcoming>>

\* one turn of: for i, (month_name, year_str) in enumerate(months_found)
MonthLoop ==
    /\ upc = "loop"
    /\ mi <= Len(months_found)
    /\ upcoming' = MonthEntry(upcoming, mi, months_found, amounts_found)
    /\ mi' = mi + 1
    /\ UNCHANGED <<content, scanvars, llmvars, arg, ret, upc, block, months_found,
                   amounts_found>>

\* after the loop: the open-ended entry of partir_match, and return upcoming
PartirReturn ==
    /\ upc = "loop"
    /\ mi > Len(months_found)
    /\ upcoming' = PartirEntry(upcoming, block, Search(PartirRe, block))
    /\ upc' = "done"
    /\ UNCHANGED <<content, scanvars, llmvars, arg, ret, block, months_found, amounts_found,
                   mi>>

NextUpcoming ==
    \/ NoBlock
    \/ FindBlock
    \/ MonthLoop
    \/ PartirReturn

SpecUpcoming == InitUpcoming /\ [][NextUpcoming]_vars

\* ------------------------------------------------------------ both extractions over one content

\* the last lines of the texts: blocks of upcoming installments, and a line
\* without the label
BlockLines == {
    JoinParts(<<UHead, UMarzo26, UMonto5>>, " "),
    JoinParts(<<UHead, UPartir>>, " "),
    UHead,
    UTotal}
\* the most lines before the block
MaxBothLines == 2
BothTexts ==
    {Join(ls \o <<u>>) :
        ls \in UNION {[1..n -> CoreLines] : n \in 0..MaxBothLines}, u \in BlockLines}

\* extract_structured_transactions(content) and
\* extract_upcoming_installments(content) are called on the same content
InitBoth ==
    /\ content \in {[text |-> x] : x \in BothTexts}
    /\ lines = SplitLines(content.text)
    /\ lineno = 1
    /\ in_detalle = FALSE
    /\ results = <<>>
    /\ pc = "scan"
    /\ origin = <<>>
    /\ via = "structural"
    /\ handed = {}
    /\ inside = <<>>
    /\ arg = <<>>
    /\ ret = None
    /\ upcoming = <<>>
    /\ upc = "call"
    /\ block = <<>>
    /\ months_found = <<>>
    /\ amounts_found = <<>>
    /\ mi = 1
    /\ LlmIdle

\* a step of either call
NextBoth ==
    \/ SkipBlank
    \/ EnterDetalle
    \/ LeaveDetalle
    \/ SkipCargo
    \/ SkipOutside
    \/ ParseLine
    \/ ReturnResults
    \/ Fallback
    \/ NoBlock
    \/ FindBlock
    \/ MonthLoop
    \/ PartirReturn

SpecBoth == InitBoth /\ [][NextBoth]_vars

\* ------------------------------------------------------------ _llm_enrich, _llm_only_parse

\* What json.loads(raw) gives for the answer of the LLM: a JSON value, or
\* JInvalid for a text that is not JSON (json.JSONDecodeError).  A value is
\* [k, v]: its kind, and the float of a number, the characters of a string,
\* the values of an array, the <<key, value>> pairs of an object.
JInvalid == [k |-> "invalid", v |-> <<>>]
JNull == [k |-> "null", v |-> <<>>]
JNum(f) == [k |-> "num", v |-> f]
JStr(cs) == [k |-> "str", v |-> cs]
JArr(es) == [k |-> "arr", v |-> es]
JObj(ps) == [k |-> "obj", v |-> ps]

\* an uncaught TypeError leaving a function that returns a list
RaiseTypeError == <<[error |-> "TypeError"]>>

\* d.get(key, default) on an object, or on {} for d = None
ObjGet(d, key, default) ==
    IF d # None /\ DictHas(d.v, key) THEN DictVal(d.v, key) ELSE default
\* w in s for strings
Contains(s, w) ==
    \E n \in 1..Len(s) : n + Len(w) - 1 <= Len(s) /\ SubSeq(s, n, n + Len(w) - 1) = w
\* bool(x)
Truthy(x) == IF x.k = "null" THEN FALSE ELSE IF x.k = "num" THEN x.v # Zero ELSE x.v # <<>>
\* hash(x) returns
Hashable(x) == x.k \notin {"arr", "obj"}

RECURSIVE EnrichEntries(_, _, _)
\* {e["idx"]: e for e in entries if "idx" in e} from entry n on, m so far;
\* {} when the TypeError of a step is caught: "idx" in e of None or a number,
\* e["idx"] of a string or a list that holds "idx", an unhashable e["idx"]
EnrichEntries(es, n, m) ==
    IF n > Len(es) THEN m
    ELSE IF es[n].k \in {"null", "num"} THEN <<>>
    ELSE IF es[n].k = "str"
         THEN (IF Contains(es[n].v, <<"i", "d", "x">>) THEN <<>>
               ELSE EnrichEntries(es, n + 1, m))
    ELSE IF es[n].k = "arr"
         THEN (IF \E j \in 1..Len(es[n].v) : es[n].v[j] = JStr(<<"i", "d", "x">>)
               THEN <<>>
               ELSE EnrichEntries(es, n + 1, m))
    ELSE IF ~DictHas(es[n].v, "idx") THEN EnrichEntries(es, n + 1, m)
    ELSE IF ~Hashable(DictVal(es[n].v, "idx")) THEN <<>>
    ELSE EnrichEntries(es, n + 1, DictSet(m, DictVal(es[n].v, "idx"), es[n]))
\* enrich_map: {} for a text that is not JSON (JSONDecodeError), for None or
\* a number (TypeError: not iterable), for a string (no character holds
\* "idx") and for an object (its keys are strings: skipped, or TypeError)
enrich_map(loaded) ==
    IF loaded.k = "arr" THEN EnrichEntries(loaded.v, 1, <<>>) ELSE <<>>
\* enrich_map.get(i): None for {}
MapGet(m, i) == IF DictHas(m, JNum(<<i, 0>>)) THEN DictVal(m, JNum(<<i, 0>>)) ELSE None

Expense == JStr(<<"e", "x", "p", "e", "n", "s", "e">>)
Otros == JStr(<<"o", "t", "r", "o", "s">>)

\* a variant of Enriched: the installment fields are not carried over
EnrichedSinCuotas(tx, e) ==
    [amount |-> tx.amount,
     type |-> ObjGet(e, "type", Expense),
     category |-> ObjGet(e, "category", Otros),
     description |-> tx.description,
     date |-> tx.date,
     installment_current |-> None,
     installment_total |-> None,
     installments_remaining |-> None]

\* the dict of the returned list for the record tx and e = enrich_map.get(i)
Enriched(tx, e) ==
    [amount |-> tx.amount,
     type |-> ObjGet(e, "type", Expense),
     category |-> ObjGet(e, "category", Otros),
     description |-> tx.description,
     date |-> tx.date,
     installment_current |-> tx.installment_current,
     installment_total |-> tx.installment_total,
     installments_remaining |-> tx.installments_remaining]
\* the returned list for the map m (i counts from 0)
EnrichAll(txs, m) == [n \in 1..Len(txs) |-> Enriched(txs[n], MapGet(m, n - 1))]
\* _llm_enrich(structured_txs, today) when json.loads(raw) gives loaded
_llm_enrich(txs, loaded) == EnrichAll(txs, enrich_map(loaded))

\* date.today().isoformat()
Today == <<"2", "0", "2", "6", "-", "1", "1", "-", "0", "4">>
\* str(x)[:100] for a string or None
Str100(x) == IF x.k = "null" THEN <<"N", "o", "n", "e">> ELSE Prefix(x.v, 100)
\* the dict of the returned list for the entry tx whose amount float() read
OnlyRecord(tx, amount) ==
    [amount |-> Abs(amount),
     type |-> ObjGet(tx, "type", Expense),
     category |-> ObjGet(tx, "category", Otros),
     description |-> Str100(ObjGet(tx, "description", JStr(<<>>))),
     date |-> ObjGet(tx, "date", JStr(Today)),
     installment_current |-> ObjGet(tx, "installment_current", JNull),
     installment_total |-> ObjGet(tx, "installment_total", JNull),
     installments_remaining |-> ObjGet(tx, "installments_remaining", JNull)]

RECURSIVE OnlyEntries(_, _, _), OnlyAmount(_, _, _, _)
\* the list comprehension from entry n on, acc so far: the list, [] when the
\* ValueError of float() is caught, or the TypeError of float()
OnlyEntries(es, n, acc) ==
    IF n > Len(es) THEN acc
    ELSE IF es[n].k # "obj" THEN OnlyEntries(es, n + 1, acc)
    ELSE OnlyAmount(es, n, acc, ObjGet(es[n], "amount", JNull))
\* ... if tx.get("amount"), and abs(float(tx["amount"]))
OnlyAmount(es, n, acc, amount) ==
    IF ~Truthy(amount) THEN OnlyEntries(es, n + 1, acc)
    ELSE IF amount.k = "num"
         THEN OnlyEntries(es, n + 1, Append(acc, OnlyRecord(es[n], amount.v)))
    ELSE IF amount.k = "str"
         THEN (IF FloatOk(amount.v)
               THEN OnlyEntries(es, n + 1, Append(acc, OnlyRecord(es[n], FloatVal(amount.v))))
               ELSE <<>>)
    ELSE RaiseTypeError
\* _llm_only_parse(raw_text, today) when json.loads(raw) gives loaded: [] for
\* a text that is not JSON (JSONDecodeError is caught), for a string and an
\* object (no item is a dict); the TypeError of iterating None or a number
\* is not caught
_llm_only_parse(loaded) ==
    IF loaded.k = "arr" THEN OnlyEntries(loaded.v, 1, <<>>)
    ELSE IF loaded.k \in {"null", "num"} THEN RaiseTypeError
    ELSE <<>>

\* ------------------------------------------------------------ parse_pdf_transactions

\* the entries of the answers
ERopa ==
    JObj(<<<<"idx", JNum(<<0, 0>>)>>, <<"category", JStr(<<"r", "o", "p", "a">>)>>,
        <<"type", JStr(<<"i", "n", "c", "o", "m", "e">>)>>>>)
ESalud ==
    JObj(<<<<"idx", JNum(<<1, 0>>)>>, <<"category", JStr(<<"s", "a", "l", "u",
        "d">>)>>>>)
EIdxStr ==
    JObj(<<<<"idx", JStr(<<"0">>)>>, <<"type", JStr(<<"i", "n", "c", "o", "m",
        "e">>)>>>>)
ESinIdx ==
    JObj(<<<<"category", JStr(<<"r", "o", "p", "a">>)>>>>)
EIdx7 ==
    JObj(<<<<"idx", JNum(<<7, 0>>)>>, <<"type", JStr(<<"i", "n", "c", "o", "m",
        "e">>)>>>>)
EIdxList ==
    JObj(<<<<"idx", JArr(<<JNum(<<0, 0>>)>>)>>>>)
ETypeNull ==
    JObj(<<<<"idx", JNum(<<0, 0>>)>>, <<"type", JNull>>>>)
ENum ==
    JNum(<<5, 0>>)
EStr ==
    JStr(<<"i", "d", "x">>)
ENull ==
    JNull
ESuperVea ==
    JObj(<<<<"amount", JNum(<<125, 1>>)>>, <<"type", JStr(<<"e", "x", "p", "e", "n",
        "s", "e">>)>>, <<"category", JStr(<<"a", "l", "i", "m", "e", "n", "t", "a",
        "c", "i", "o", "n">>)>>, <<"description", JStr(<<"S", "u", "p", "e", "r", " ",
        "V", "e", "a">>)>>, <<"date", JStr(<<"2", "0", "2", "6", "-", "0", "3", "-",
        "0", "1">>)>>>>)
EAmountAbc ==
    JObj(<<<<"amount", JStr(<<"a", "b", "c">>)>>>>)
EAmountList ==
    JObj(<<<<"amount", JArr(<<JNum(<<1, 0>>)>>)>>>>)
EAmountNull ==
    JObj(<<<<"amount", JNull>>, <<"description", JStr(<<"x">>)>>>>)
EAmountStr ==
    JObj(<<<<"amount", JStr(<<"1", "2", ".", "5">>)>>, <<"description", JNull>>>>)
EAmountNeg ==
    JObj(<<<<"amount", JNum(<<-3, 0>>)>>>>)

Entries == {ERopa, ESalud, EIdxStr, ESinIdx, EIdx7, EIdxList, ETypeNull, ENum, EStr,
            ENull, ESuperVea, EAmountAbc, EAmountList, EAmountNull, EAmountStr,
            EAmountNeg}
\* the most entries of an answer that is an array
MaxEntries == 2
\* the answers: no JSON, null, a number, a string, an object, and the arrays
Replies ==
    {JInvalid, JNull, JNum(<<5, 0>>), JStr(<<"a", "b", "c">>), ERopa, ESuperVea}
    \cup {JArr(es) : es \in UNION {[1..n -> Entries] : n \in 0..MaxEntries}}

\* the texts: empty, blank, with two records, with one record of the
\* fallback, without a record, and with a date that makes the scan raise
ParseTexts == {
    <<>>,
    <<" ", "\n", " ">>,
    Join(<<LBanner, LLacoste, LDisney>>),
    LSellos,
    LTotal,
    LMesSup}

InitParse ==
    /\ content \in {[text |-> x] : x \in ParseTexts}
    /\ reply \in Replies
    /\ structured_txs = <<>>
    /\ out = <<>>
    /\ ppc = "call"
    /\ llm_calls = 0
    /\ prompts = <<>>
    /\ UpIdle
    /\ lines = <<>>
    /\ lineno = 1
    /\ in_detalle = FALSE
    /\ results = <<>>
    /\ pc = "idle"
    /\ origin = <<>>
    /\ via = "structural"
    /\ handed = {}
    /\ inside = <<>>
    /\ arg = <<>>
    /\ ret = None

\* if not full_text.strip(): return []
EmptyText ==
    /\ ppc = "call"
    /\ Strip(content.text) = <<>>
    /\ out' = <<>>
    /\ ppc' = "done"
    /\ UNCHANGED <<content, scanvars, upvars, arg, ret, reply, structured_txs,
                   llm_calls, prompts>>

\* structured_txs is the list, or the ValueError leaves the function
Extracted(txs) ==
    IF txs = RaiseList
    THEN ppc' = "raised" /\ UNCHANGED <<structured_txs, upcoming>>
    ELSE /\ ppc' = "extracted"
         /\ structured_txs' = txs
         /\ upcoming' = extract_upcoming_installments(content.text)
\* structured_txs = extract_structured_transactions(content)
\* upcoming = extract_upcoming_installments(content)
Extract ==
    /\ ppc = "call"
    /\ Strip(content.text) # <<>>
    /\ Extracted(extract_structured_transactions(content.text))
    /\ UNCHANGED <<content, scanvars, upc, block, months_found, amounts_found, mi,
                   arg, ret, reply, out, llm_calls, prompts>>

\* return await _llm_enrich(structured_txs, today)
Enrich ==
    /\ ppc = "extracted"
    /\ structured_txs # <<>>
    /\ llm_calls' = llm_calls + 1
    /\ prompts' = Append(prompts, "categorize")
    /\ out' = _llm_enrich(structured_txs, reply)
    /\ ppc' = "done"
    /\ UNCHANGED <<content, scanvars, upvars, arg, ret, reply, structured_txs>>

\* return the list, or the TypeError leaves the function
OnlyReturned(txs) ==
    IF txs = RaiseTypeError
    THEN ppc' = "raised" /\ UNCHANGED out
    ELSE ppc' = "done" /\ out' = txs
\* if not structured_txs: return await _llm_only_parse(full_text, today)
LlmOnly ==
    /\ ppc = "extracted"
    /\ structured_txs = <<>>
    /\ llm_calls' = llm_calls + 1
    /\ prompts' = Append(prompts, "extract")
    /\ OnlyReturned(_llm_only_parse(reply))
    /\ UNCHANGED <<content, scanvars, upvars, arg, ret, reply, structured_txs>>

NextParse ==
    \/ EmptyText
    \/ Extract
    \/ Enrich
    \/ LlmOnly

SpecParse == InitParse /\ [][NextParse]_vars

\* ------------------------------------------------------------ properties

\* the line of text that position pos is on, as splitlines counts the lines
LineAt(text, pos) == Cardinality({k \in 1..(pos - 1) : text[k] = "\n"}) + 1
\* the matches the records of the fallback are made from, in order
KeptMatches ==
    FallbackKept(content.text, FindAll(FallbackRe, content.text, 1))
\* the lines a match of the fallback pattern lies on
MatchLines(m) ==
    LineAt(content.text, MStart(m))..LineAt(content.text, MEnd(m) - 1)
\* the lines record k of the returned list is derived from
SourceLines(k) ==
    IF via = "structural" THEN {origin[k]} ELSE MatchLines(KeptMatches[k])
\* the line that carries the date of record k
DateLine(k) ==
    IF via = "structural" THEN origin[k]
    ELSE LineAt(content.text, MStart(KeptMatches[k]))
\* a banner, a section-closing line or a tax/interest/commission line
Classified(x) == IsDetalle(Strip(x)) \/ IsCierre(Strip(x)) \/ IsCargo(Strip(x))
\* the record tx is one: neither None nor an error
IsRecord(tx) == tx # None /\ tx # RaiseDict
\* a well-formed charge line: not classified, with a date that resolves and
\* a positive amount at its end
IsCharge(x) ==
    /\ Strip(x) # <<>>
    /\ ~Classified(x)
    /\ IsRecord(_parse_transaction_line(Strip(x)))
\* the three installment fields of a record are absent
NoInstallments(r) ==
    /\ r.installment_current = None
    /\ r.installment_total = None
    /\ r.installments_remaining = None
\* the three installment fields of a record are c, t, t - c
Installments(r, c, t) ==
    /\ r.installment_current = Some(c)
    /\ r.installment_total = Some(t)
    /\ r.installments_remaining = Some(t - c)

\* C1: no record of the returned list is derived from a line classified as a
\* banner, a section-closing line or a tax/interest/commission line, on the
\* structural path and on the fallback path.
C1_NoRecordFromClassifiedLine ==
    pc = "done" =>
        \A k \in 1..Len(results) :
            \A i \in SourceLines(k) : ~Classified(lines[i])

\* the three installment fields of r are all absent, or all present with
\* 1 <= current <= total and remaining = total - current >= 0
InstallmentsConsistent(r) ==
    \/ NoInstallments(r)
    \/ /\ r.installment_current # None
       /\ r.installment_total # None
       /\ r.installments_remaining # None
       /\ 1 <= r.installment_current[1]
       /\ r.installment_current[1] <= r.installment_total[1]
       /\ r.installments_remaining[1]
              = r.installment_total[1] - r.installment_current[1]
       /\ r.installments_remaining[1] >= 0

\* C2: in every returned record the installment fields are all absent or all
\* present and consistent; the records of the fallback have all three absent.
C2_InstallmentFields ==
    pc = "done" =>
        \A k \in 1..Len(results) :
            /\ InstallmentsConsistent(results[k])
            /\ via = "fallback" => NoInstallments(results[k])

\* a returned list with a record that carries the installment 3 of 6
C2_Witness ==
    /\ pc = "done"
    /\ \E k \in 1..Len(results) : Installments(results[k], 3, 6)

\* the amount token at the end of the text x, None when there is none
TokenAt(x, amount_match) ==
    IF amount_match = <<>> THEN None ELSE Group(x, amount_match, 1, 1)
AmountToken(x) == TokenAt(Strip(x), Search(AmountRe, Strip(x)))
\* the amount is positive and is the absolute value of the token
AmountOfToken(amount, token) ==
    /\ Positive(amount)
    /\ token # None
    /\ amount = _parse_amount(token)

\* C3: every returned record has an amount > 0 that is the absolute value of
\* the amount token of its line; a line whose amount token is missing,
\* unparseable or not positive gives no record.
C3_AmountOfLineToken ==
    pc = "done" =>
        \A k \in 1..Len(results) :
            AmountOfToken(results[k].amount, AmountToken(lines[DateLine(k)]))

\* C4: every returned record has a non-empty description of at most 80
\* characters, whichever path produced it.
C4_DescriptionNonEmpty ==
    pc = "done" =>
        \A k \in 1..Len(results) :
            /\ results[k].description # <<>>
            /\ Len(results[k].description) <= MaxDesc

\* C5: the extraction never raises, and the empty text yields the empty list.
C5_NeverRaises ==
    /\ pc # "raised"
    /\ pc = "done" /\ content.text = <<>> => results = <<>>

\* the lines of the text that are well-formed charge lines, in order
ChargeLines ==
    SelectSeq([i \in 1..Len(lines) |-> i], LAMBDA i : IsCharge(lines[i]))
\* one banner, then charge lines and blank lines, then a TOTAL A PAGAR line
IsDetalleDocument ==
    /\ Len(lines) >= 3
    /\ lines[1] = LBanner
    /\ lines[Len(lines)] = LTotal
    /\ \A i \in 2..(Len(lines) - 1) : lines[i] = <<>> \/ IsCharge(lines[i])
    /\ \E i \in 2..(Len(lines) - 1) : IsCharge(lines[i])
\* the returned list is the records of the lines idx, in order
RecordsOf(idx) ==
    /\ via = "structural"
    /\ origin = idx
    /\ Len(results) = Len(idx)
    /\ \A k \in 1..Len(idx) :
           results[k] = _parse_transaction_line(Strip(lines[idx[k]]))

NoiseInside(i) ==
    /\ i > 1
    /\ inside[i - 1]
    /\ Strip(lines[i]) # <<>>
    /\ ~IsDetalle(Strip(lines[i]))
    /\ ~IsCierre(Strip(lines[i]))
    /\ IsCargo(Strip(lines[i]))
\* line j is a charge line after line i with no closing line between them
ChargeAfter(i, j) ==
    /\ j > i
    /\ IsCharge(lines[j])
    /\ \A h \in (i + 1)..(j - 1) : ~IsCierre(Strip(lines[h]))

\* C7: a tax/interest line read inside the section is excluded from the
\* result and leaves the scan inside the section: a well-formed charge line
\* after it, before any closing line, is captured.
C7_NoiseLineSkipped ==
    pc = "done" =>
        \A i \in 1..Len(lines) :
            NoiseInside(i) =>
                /\ \A k \in 1..Len(results) : i \notin SourceLines(k)
                /\ inside[i]
                /\ \A j \in 1..Len(lines) :
                       ChargeAfter(i, j) =>
                           \E k \in 1..Len(results) : j \in SourceLines(k)

\* \b(\d{1,2})/(\d{1,2})\b: current and total of one or two digits each
TokenRe == <<WordBoundary, Cls(Digit, 1, 2), Cls({"/"}, 1, 1), Cls(Digit, 1, 2),
             WordBoundary>>
\* 1 <= current <= total and total > 1
TokenValid(c, t) == 1 <= c /\ c <= t /\ t > 1
\* <<current, total>> of a match m of TokenRe in rest
TokenOf(rest, m) == <<IntVal(Group(rest, m, 2, 2)), IntVal(Group(rest, m, 4, 4))>>
\* the text after the date of line i, without the card prefix
LineRestOf(i) == RestOf(Strip(lines[i]), Match(LineDateRe, Strip(lines[i])))
\* the record r carries the installment of the match m of rest, if a valid one
TokenTaken(r, rest, m) ==
    m # <<>> /\ TokenValid(TokenOf(rest, m)[1], TokenOf(rest, m)[2])
        => Installments(r, TokenOf(rest, m)[1], TokenOf(rest, m)[2])
\* the record r of a line with text rest after its date carries its token
FirstTokenTaken(r, rest) == TokenTaken(r, rest, Search(TokenRe, rest))

\* C8: the record of a charge line whose text after the date has a
\* current/total token of one or two digits each, with 1 <= current <= total
\* and total > 1, carries current, total and total - current.
C8_TokenOfOneOrTwoDigits ==
    pc = "done" /\ via = "structural" =>
        \A k \in 1..Len(results) :
            FirstTokenTaken(results[k], LineRestOf(origin[k]))

\* rest holds no valid current/total token, wherever one may start
TokenInvalidAt(rest, m) ==
    m # <<>> => ~TokenValid(TokenOf(rest, m)[1], TokenOf(rest, m)[2])
NoValidToken(rest) ==
    \A j \in 1..Len(rest) : TokenInvalidAt(rest, MatchFrom(TokenRe, rest, 1, j))
\* r is the record of the text rest as it stands, without installments
Untouched(r, rest) ==
    NoValidToken(rest) => r = LineRest(r.date, rest, None)
\* a line whose date resolves and whose text after the date ends in a
\* positive amount and holds no valid token
DateResolves(tx_date) == tx_date # None /\ tx_date # Raise
EmittableRest(rest) ==
    /\ NoValidToken(rest)
    /\ AmountToken(rest) # None
    /\ Positive(_parse_amount(AmountToken(rest)))
Emittable(x, date_match) ==
    /\ date_match # <<>>
    /\ DateResolves(_parse_date_es(Group(x, date_match, 2, 6)))
    /\ EmittableRest(RestOf(x, date_match))

\* C9: a line without a current/total token, or whose token fails the
\* validation, is still emitted, with the three installment fields absent
\* and with the description and the amount of its text as it stands.
C9_InvalidTokenLeftInPlace ==
    pc = "done" =>
        /\ via = "structural" =>
               \A k \in 1..Len(results) :
                   Untouched(results[k], LineRestOf(origin[k]))
        /\ \A i \in handed :
               Emittable(Strip(lines[i]), Match(LineDateRe, Strip(lines[i])))
                   => \E k \in 1..Len(origin) : origin[k] = i

\* the record of the line with the token 1/01: no installment, text kept
C9_Witness ==
    /\ pc = "done"
    /\ \E k \in 1..Len(origin) :
           /\ lines[origin[k]] = LCuota1de01
           /\ NoInstallments(results[k])
           /\ Len(results[k].description) = 15

\* a token that is no number: a letter in it, or no digit at all
NonNumeric(token) ==
    \/ \E k \in 1..Len(token) : token[k] = "a"
    \/ \A k \in 1..Len(token) : token[k] \notin Digit

\* C10: _parse_amount on a non-numeric token yields a result distinct from
\* the numeric value 0.
C10_FailureDistinctFromZero ==
    pc = "returned" /\ NonNumeric(arg) => ret # Zero

\* C10 as amended: _parse_amount on a non-numeric token yields the numeric
\* value 0.0, the value it yields for the token "0".
C10_FailureIsZero ==
    pc = "returned" /\ NonNumeric(arg) =>
        ret = Zero /\ ret = _parse_amount(<<"0">>)

\* the call on a token of letters has returned 0.0
C10_Witness ==
    /\ pc = "returned"
    /\ arg = <<"a", "a", "a">>
    /\ ret = Zero

\* C11: _parse_date_es is total: for every token it returns an ISO date or
\* None, and it never raises.
C11_ParseDateTotal ==
    pc # "call" => pc = "returned" /\ (ret = None \/ Len(ret) = 10)

\* the year of an ISO date
YearOfDate(d) == DigitsVal(SubSeq(d, 1, 4))

\* C12: every date of a returned record has a four-digit year: for every date
\* token that the line pattern or the fallback pattern accepts, the year of
\* the record's date is never below 1000.
C12_YearNeverBelow1000 ==
    pc = "done" => \A k \in 1..Len(results) : YearOfDate(results[k].date) >= 1000

\* the call of extract_upcoming_installments has returned what the function
\* of the text gives
UpcomingAsComputed ==
    upc = "done" => upcoming = extract_upcoming_installments(content.text)

\* the month tokens of the block: those of months_found with a known month
MonthTokens == SelectSeq(months_found, LAMBDA m : MonthNum(m[1]) # None)
\* the key of a month token
KeyOfToken(m) == MonthKey(m[2], MonthNum(m[1])[1])
\* the block has no open-ended phrase
NoPartir == Search(PartirRe, block) = <<>>
\* the month tokens are of pairwise distinct months
DistinctMonths ==
    \A j, k \in 1..Len(MonthTokens) :
        j # k => KeyOfToken(MonthTokens[j]) # KeyOfToken(MonthTokens[k])

\* C13: for a block with n month tokens of distinct recognized months, n
\* amount tokens and no open-ended phrase, the returned map has exactly n
\* entries, the i-th month's key mapped to the i-th amount, whatever other
\* text the block contains.
C13_PairedByPosition ==
    (/\ upc = "done"
     /\ Search(VencerRe, content.text) # <<>>
     /\ NoPartir
     /\ DistinctMonths
     /\ Len(MonthTokens) = Len(amounts_found))
    => upcoming = [k \in 1..Len(MonthTokens) |->
                      <<KeyOfToken(MonthTokens[k]), _parse_amount(amounts_found[k])>>]

\* the open-ended phrases of the block, left to right
Phrases == FindAll(PartirRe, block, 1)
\* the phrase m has a recognized month name
PhraseKnown(m) == MonthNum(Group(block, m, 13, 13)) # None
\* the map has the open-ended entry of the phrase m
PhraseStored(m) ==
    /\ DictHas(upcoming, MonthKey(Group(block, m, 15, 15),
                                  MonthNum(Group(block, m, 13, 13))[1]) \o <<"+">>)
    /\ DictVal(upcoming, MonthKey(Group(block, m, 15, 15),
                                  MonthNum(Group(block, m, 13, 13))[1]) \o <<"+">>)
           = _parse_amount(Group(block, m, 18, 18))
\* the call has returned the map of a text with a block
ReturnedOfBlock == upc = "done" /\ Search(VencerRe, content.text) # <<>>

\* C14 as stated: whenever the block contains the open-ended phrase with a
\* recognized month name, the returned map holds the key YYYY-MM+ of that
\* month and year, mapped to that amount: for every such phrase of the block.
C14_EveryPhraseStored ==
    ReturnedOfBlock =>
        \A k \in 1..Len(Phrases) : PhraseKnown(Phrases[k]) => PhraseStored(Phrases[k])

\* C14, amended: when the first open-ended phrase of the block has a
\* recognized month name, the returned map holds the key of that month and
\* year followed by +, mapped to the parsed amount of that phrase; the map has
\* no other key that ends in +.
C14_FirstPhraseStored ==
    ReturnedOfBlock =>
        /\ Phrases # <<>> /\ PhraseKnown(Phrases[1]) => PhraseStored(Phrases[1])
        /\ Cardinality({j \in 1..Len(upcoming) :
                            upcoming[j][1][Len(upcoming[j][1])] = "+"}) <= 1
\* a returned map with the open-ended entry of the first of two phrases
C14_Witness ==
    /\ ReturnedOfBlock
    /\ Len(Phrases) = 2
    /\ PhraseKnown(Phrases[1])
    /\ PhraseStored(Phrases[1])
    /\ ~PhraseStored(Phrases[2])

\* a key without the + of an open-ended entry
PlainKey(key) ==
    IF key # <<>> /\ key[Len(key)] = "+" THEN SubSeq(key, 1, Len(key) - 1) ELSE key
\* YYYY-MM with a month of 01..12
YearMonth(key) ==
    /\ Len(key) = 7
    /\ \A j \in {1, 2, 3, 4, 6, 7} : key[j] \in Digit
    /\ key[5] = "-"
    /\ DigitsVal(SubSeq(key, 6, 7)) \in 1..12

\* C15: every key of the returned map has the form YYYY-MM or YYYY-MM+ with
\* a four-digit year and a two-digit month in 01..12, for every month/year
\* token the block pattern accepts (2 to 4 year digits).
C15_KeysAreYearMonth ==
    upc = "done" => \A j \in 1..Len(upcoming) : YearMonth(PlainKey(upcoming[j][1]))

\* the matches of the month/year pattern in the block, left to right
TokenMatches == FindAll(MonthYearRe, block, 1)
\* where in the block the month of the key first appears: the first token of
\* a recognized month with that key, or the month of the first open-ended
\* phrase for a key that ends in +
MonthPos(key) ==
    IF key[Len(key)] = "+"
    THEN Phrases[1][13]
    ELSE Min({MStart(TokenMatches[k]) : k \in
                 {n \in 1..Len(TokenMatches) :
                     /\ MonthNum(Group(block, TokenMatches[n], 1, 1)) # None
                     /\ MonthKey(Group(block, TokenMatches[n], 3, 3),
                                 MonthNum(Group(block, TokenMatches[n], 1, 1))[1]) = key}})
KeysDistinct ==
    \A j, k \in 1..Len(upcoming) : j # k => upcoming[j][1] # upcoming[k][1]
OpenEnded(j) == upcoming[j][1][Len(upcoming[j][1])] = "+"

\* C16 as stated: the keys are pairwise distinct and the entries, the
\* open-ended one included, come in the order in which their months appear
\* in the block.
C16_OrderOfAppearance ==
    upc = "done" =>
        /\ KeysDistinct
        /\ \A j, k \in 1..Len(upcoming) :
               j < k => MonthPos(upcoming[j][1]) <= MonthPos(upcoming[k][1])

\* C16, amended: the keys are pairwise distinct, the entries of the plain
\* month keys come in the order in which their months first appear in the
\* block, and the open-ended entry, when there is one, comes last.
C16_PlainInOrderOpenLast ==
    upc = "done" =>
        /\ KeysDistinct
        /\ \A j, k \in 1..Len(upcoming) :
               j < k /\ ~OpenEnded(j) /\ ~OpenEnded(k)
                   => MonthPos(upcoming[j][1]) < MonthPos(upcoming[k][1])
        /\ \A j \in 1..Len(upcoming) : OpenEnded(j) => j = Len(upcoming)
\* a returned map whose open-ended entry comes after the entry of a month
\* that appears later in the block
C16_Witness ==
    /\ upc = "done"
    /\ Len(upcoming) = 3
    /\ OpenEnded(3)
    /\ MonthPos(upcoming[3][1]) < MonthPos(upcoming[2][1])

\* the text holds the label of the block, in any case of letters
HasLabel(text) ==
    \E k \in 1..Len(text) :
        /\ k + Len(UHead) - 1 <= Len(text)
        /\ LowerStr(SubSeq(text, k, k + Len(UHead) - 1)) = LowerStr(UHead)
\* a map from keys to amounts
IsMap(d) ==
    /\ \A j \in 1..Len(d) : Len(d[j]) = 2 /\ d[j][1] # <<>> /\ Len(d[j][2]) = 2
    /\ \A j, k \in 1..Len(d) : j # k => d[j][1] # d[k][1]

\* C17: extract_upcoming_installments returns a map for every text and never
\* raises: a call is in its first step, in its loop or has returned, what it
\* returns is a map, and the map is empty when the text is empty or has no
\* block label.
C17_AlwaysAMap ==
    /\ upc \in {"call", "loop", "done"}
    /\ upc = "loop" => mi <= Len(months_found) + 1
    /\ upc = "done" => IsMap(upcoming)
    /\ upc = "done" /\ ~HasLabel(content.text) => upcoming = <<>>
\* the call has returned the empty map for a text that holds an open-ended
\* phrase and no label
C17_Witness ==
    /\ upc = "done"
    /\ content.text = UPartir
    /\ upcoming = <<>>

\* the call of extract_structured_transactions has ended as the function of
\* the text says
ScanAsComputed ==
    /\ pc = "done" => results = extract_structured_transactions(content.text)
    /\ pc = "raised" => extract_structured_transactions(content.text) = RaiseList

\* C18: the two extractions share no state and do not modify the content:
\* under every interleaving of their steps over one content each call ends
\* with what it returns when run alone, and no step changes the content.
C18_NoInterference ==
    /\ [](ScanAsComputed /\ UpcomingAsComputed)
    /\ [][content' = content]_vars
\* both calls are under way over one content, each with part of its result
C18_Witness ==
    /\ pc = "scan" /\ lineno > 1 /\ lineno <= Len(lines) /\ results # <<>>
    /\ upc = "loop" /\ mi > 1 /\ upcoming # <<>>

\* what the entries of the answer say under key for the record of idx i: the
\* values of the objects of the array that hold idx = i and the key
Said(i, key) ==
    IF reply.k # "arr" THEN {}
    ELSE {DictVal(reply.v[j].v, key) : j \in
             {n \in 1..Len(reply.v) :
                 /\ reply.v[n].k = "obj"
                 /\ DictHas(reply.v[n].v, "idx")
                 /\ DictVal(reply.v[n].v, "idx") = JNum(<<i, 0>>)
                 /\ DictHas(reply.v[n].v, key)}}
\* the call has returned from the enrichment step
EnrichDone == ppc = "done" /\ structured_txs # <<>>

\* C19: for every answer of the categorization service the enrichment step
\* returns one record per structured record, in the same order, with amount,
\* description, date and the three installment fields unchanged; type and
\* category are what the answer says for the record, 'expense' and 'otros'
\* when it says nothing for it.
C19_EnrichKeepsRecords ==
    EnrichDone =>
        /\ Len(out) = Len(structured_txs)
        /\ \A n \in 1..Len(out) :
            /\ out[n].amount = structured_txs[n].amount
            /\ out[n].description = structured_txs[n].description
            /\ out[n].date = structured_txs[n].date
            /\ out[n].installment_current = structured_txs[n].installment_current
            /\ out[n].installment_total = structured_txs[n].installment_total
            /\ out[n].installments_remaining = structured_txs[n].installments_remaining
            /\ out[n].type \in Said(n - 1, "type") \cup {Expense}
            /\ out[n].category \in Said(n - 1, "category") \cup {Otros}
            /\ Said(n - 1, "type") = {} => out[n].type = Expense
            /\ Said(n - 1, "category") = {} => out[n].category = Otros
\* two records with installments enriched by an answer that covers both,
\* the second without a type
C19_Witness ==
    /\ EnrichDone
    /\ reply = JArr(<<ERopa, ESalud>>)
    /\ Len(out) = 2
    /\ out[1].type = JStr(<<"i", "n", "c", "o", "m", "e">>)
    /\ out[1].installment_current = Some(3)
    /\ out[2].category = JStr(<<"s", "a", "l", "u", "d">>)
    /\ out[2].type = Expense

\* the answer is a JSON array of objects with numeric amounts
TransactionArray ==
    /\ reply.k = "arr"
    /\ \A n \in 1..Len(reply.v) :
           /\ reply.v[n].k = "obj"
           /\ DictHas(reply.v[n].v, "amount")
           /\ DictVal(reply.v[n].v, "amount").k = "num"
\* the call has left the full-LLM fallback, by a return or an exception
LlmOnlyLeft == llm_calls = 1 /\ structured_txs = <<>> /\ ppc \in {"done", "raised"}

\* C20: in the full-LLM fallback every answer that is not a JSON array of
\* transaction objects with numeric amounts (no JSON, a scalar or null, an
\* entry whose amount is not a number) makes parse_pdf_transactions return
\* the empty list instead of raising.
C20_MalformedAnswerGivesEmpty ==
    LlmOnlyLeft /\ ~TransactionArray => ppc = "done" /\ out = <<>>

\* parse_pdf_transactions has returned or raised
ParseLeft == ppc \in {"done", "raised"}

\* C21: parse_pdf_transactions returns [] without a call of the LLM when the
\* text is empty or blank; otherwise it makes exactly one call of the LLM:
\* the categorization call when the deterministic extraction returned a
\* record, the full extraction call only when it returned none.
C21_ExactlyOneLlmCall ==
    ParseLeft =>
        IF Strip(content.text) = <<>>
        THEN ppc = "done" /\ out = <<>> /\ prompts = <<>>
        ELSE prompts = IF extract_structured_transactions(content.text) # <<>>
                       THEN <<"categorize">> ELSE <<"extract">>

\* line k of the document is a banner line, a section-closing line
BannerAt(k) == SearchAlt(DetalleRe, Strip(lines[k]))
CloserAt(k) == SearchAlt(CierreRe, Strip(lines[k]))
\* the first k lines hold a banner line with no closing line after the last one
OpenAfter(k) ==
    \E b \in 1..k :
        /\ BannerAt(b)
        /\ \A j \in (b + 1)..k : ~BannerAt(j) /\ ~CloserAt(j)
\* the scan has ended: it has returned or raised
ScanLeft == pc \in {"done", "raised"}

\* C22: the scanner starts in OUTSIDE_DETAIL, and after any prefix of the
\* lines its state is INSIDE_DETAIL iff the prefix holds a banner line and no
\* section-closing line comes after the last banner line.
C22_StateOfPrefix ==
    /\ Len(inside) = 0 => ~in_detalle
    /\ Len(inside) > 0 => in_detalle = inside[Len(inside)]
    /\ ScanLeft => \A k \in 1..Len(inside) : inside[k] <=> OpenAfter(k)
\* a banner after a closing line re-enters the section, and the charge line
\* after it is captured
C22_Witness ==
    /\ pc = "done"
    /\ Len(inside) = 4
    /\ inside = <<TRUE, FALSE, TRUE, TRUE>>
    /\ CloserAt(2) /\ BannerAt(3)
    /\ via = "structural" /\ origin = <<4>>

\* the scan has returned the records of its own loop
StructuralDone == pc = "done" /\ via = "structural"
\* line k was read in state INSIDE_DETAIL
ReadInside(k) == k > 1 /\ OpenAfter(k - 1)
\* line k is a well-formed charge line
ChargeAt(k) == _parse_transaction_line(Strip(lines[k])) \notin {None, RaiseDict}

\* C23: whenever the structural scan produces at least one record, every
\* returned record is the record of a line that was read in state
\* INSIDE_DETAIL; a charge line before the first banner, or after a closing
\* line with no later banner, contributes none.
C23_RecordsFromInside ==
    StructuralDone =>
        /\ Len(origin) = Len(results)
        /\ \A i \in 1..Len(results) :
               /\ ReadInside(origin[i])
               /\ results[i] = _parse_transaction_line(Strip(lines[origin[i]]))
               /\ \A j \in 1..(i - 1) : origin[j] < origin[i]
\* a record from inside the section, and a well-formed charge line after the
\* closing line that gave none
C23_Witness ==
    /\ StructuralDone
    /\ Len(lines) = 4
    /\ origin = <<2>>
    /\ CloserAt(3)
    /\ ChargeAt(4)

\* the call has ended as the claim says of a scan whose loop yielded scanned
FallbackIffNone(scanned) ==
    /\ via = "fallback" <=> scanned = <<>>
    /\ Len(origin) = Len(scanned)
    /\ pc = "done" /\ scanned # <<>> => results = scanned
    /\ pc = "done" /\ scanned = <<>> => results = _fallback_regex_parse(content.text)

\* C24: the fallback extractor runs iff the structural scan yielded no
\* record; with a record the result is exactly the structural records, with
\* none it is exactly what the fallback returns.
C24_FallbackIffNoRecord ==
    /\ pc = "scan" => via = "structural"
    /\ pc = "done" \/ (pc = "raised" /\ via = "fallback") =>
           FallbackIffNone(ScanFrom(lines, 1, FALSE, <<>>))
\* a detail section whose lines were all rejected, and the fallback's records
C24_Witness ==
    /\ pc = "done"
    /\ via = "fallback"
    /\ Len(lines) >= 2
    /\ BannerAt(1)
    /\ handed # {}
    /\ results # <<>>

\* ^ and a date token of one of the three shapes, with - or /: items 2..6
ShapeRe == <<StartOfString, Cls(Digit, 2, 2), Cls(DateSep, 1, 1), Cls(WordCh, 2, 3),
             Cls(DateSep, 1, 1), Cls(Digit, 2, 4)>>
\* the text after the token ends with an amount token that is positive
PositiveAtEnd(rest, amount_match) ==
    /\ amount_match # <<>>
    /\ Positive(_parse_amount(Group(rest, amount_match, 1, 1)))
\* the leading token m of the line resolves to a date
Resolves(line, m) ==
    m # <<>> /\ _parse_date_es(Group(line, m, 2, 6)) \notin {None, Raise}
\* ... and the line ends with a positive amount
DatedCharge(line, m) ==
    /\ Resolves(line, m)
    /\ PositiveAtEnd(SubSeq(line, MEnd(m), Len(line)),
                     Search(AmountRe, SubSeq(line, MEnd(m), Len(line))))
\* the line parser gave a record for line k
RecordOf(k) == \E i \in 1..Len(origin) : origin[i] = k

\* C25: the line parser accepts the leading date token in the shapes
\* dd-mm-yy(yy), dd-<month-abbr>-yy(yy) and dd/mm/yyyy: a candidate line of
\* the detail section that starts with a resolvable date of one of them and
\* ends with a positive amount yields a record, and a line with no leading
\* date token or an unresolvable one yields none.
C25_ThreeShapesAccepted ==
    pc = "done" =>
        \A k \in handed :
            /\ DatedCharge(Strip(lines[k]), Match(ShapeRe, Strip(lines[k])))
                   => RecordOf(k)
            /\ ~Resolves(Strip(lines[k]), Match(ShapeRe, Strip(lines[k])))
                   => ~RecordOf(k)

\* a trailing run of 4 or more digits: \d{4,}\s*$
TrailingDigitsRe == <<Cls(Digit, 4, Unbounded), Cls(Space, 0, Unbounded), EndOfString>>
\* the text before the amount without its trailing run of 4 or more digits,
\* trimmed and cut to 80 characters, or the placeholder when nothing is left
DescriptionOf(before) ==
    IF Prefix(Strip(SubOnce(TrailingDigitsRe, Strip(before))), MaxDesc) = <<>>
    THEN SinDescripcion
    ELSE Prefix(Strip(SubOnce(TrailingDigitsRe, Strip(before))), MaxDesc)
\* the text of line k after its date and card prefix, without its valid token
AfterCuota(rest, cuota_match) == CutCuota(rest, cuota_match, CuotaOf(rest, cuota_match))
\* the text before the amount of a line whose text is rest2 from there on
BeforeAmount(rest2, amount_match) == SubSeq(rest2, 1, MStart(amount_match) - 1)
BeforeAmountOf(rest2) == BeforeAmount(rest2, Search(AmountRe, rest2))
BeforeAmountAt(k) == BeforeAmountOf(AfterCuota(LineRestOf(k), Search(CuotaRe, LineRestOf(k))))

\* C26: the description of every record of the line parser is the text
\* preceding the amount with any trailing run of 4 or more digits removed,
\* trimmed and cut to 80 characters; when nothing remains, also when that
\* text is only a voucher number, it is the placeholder 'Sin descripcion'.
C26_DescriptionWithoutVoucher ==
    StructuralDone =>
        \A i \in 1..Len(results) :
            results[i].description = DescriptionOf(BeforeAmountAt(origin[i]))

\* the token without currency symbol and blanks
Bare(token) == Strip(Remove(Remove(token, "$"), " "))
\* every period of s stands before every comma, every comma before every period
PeriodsFirst(s) ==
    \A i, j \in 1..Len(s) : s[i] = "." /\ s[j] = "," => i < j
CommasFirst(s) ==
    \A i, j \in 1..Len(s) : s[i] = "," /\ s[j] = "." => i < j
\* the absolute value of the number s reads as, 0.0 when it is no number
Literal(s) == IF FloatOk(s) THEN Abs(FloatVal(s)) ELSE Zero
\* the value the claim gives the bare token s; a token that mixes the two
\* orders is left open
AmountAsClaimed(s, value) ==
    IF Has(s, ",") /\ Has(s, ".")
    THEN /\ PeriodsFirst(s) => value = Literal(Replace(Remove(s, "."), ",", "."))
         /\ CommasFirst(s) => value = Literal(s)
    ELSE IF Has(s, ",") THEN value = Literal(Replace(s, ",", "."))
    ELSE value = Literal(s)

\* C27: _parse_amount reads the period as grouping and the comma as decimal
\* point only in a token with both, the period before the comma; a token
\* with only a comma has the comma as decimal point; every other token, one
\* with a comma before a period included, is parsed literally.
C27_RegionalOnlyInOrder ==
    pc = "returned" => AmountAsClaimed(Bare(arg), ret)

\* the block with a blank in the place of the phrase m
ExceptPhrase(block_text, m) ==
    SubSeq(block_text, 1, MStart(m) - 1) \o <<" ">>
        \o SubSeq(block_text, MEnd(m), Len(block_text))
\* the entries of the month tokens of w, paired by position with its amounts
OrdinaryEntries(w) == MonthEntries(<<>>, 1, MonthsFound(w), AmountsFound(w))
\* the block has one open-ended phrase, with a recognized month name
OnePhrase == Len(Phrases) = 1 /\ PhraseKnown(Phrases[1])

\* C28: the amount of the open-ended phrase is recorded once, under the key
\* YYYY-MM+ only: the month token of the phrase neither creates nor
\* overwrites a plain entry and its amount takes no part in the pairing of
\* the ordinary months, so the map is that of the block without the phrase
\* plus the open-ended entry.
C28_PhraseOnlyUnderPlus ==
    ReturnedOfBlock /\ OnePhrase =>
        upcoming = PartirEntry(OrdinaryEntries(ExceptPhrase(block, Phrases[1])),
                               block, Phrases[1])

\* the bare token as _parse_amount hands it to float()
AsFloatText(s) ==
    IF Has(s, ",") /\ Has(s, ".") THEN Replace(Remove(s, "."), ",", ".")
    ELSE IF Has(s, ",") THEN Replace(s, ",", ".")
    ELSE s
\* the amount token is a number
WellFormedAmount(token) == FloatOk(AsFloatText(Bare(token)))

\* C29: extract_upcoming_installments never stores an amount that failed to
\* parse: every value of the returned map is the parsed value of a
\* well-formed amount token of the block, and a month whose paired amount
\* token is no number gets no entry rather than an entry with amount 0.
C29_NoFailedAmountStored ==
    ReturnedOfBlock =>
        \A j \in 1..Len(upcoming) :
            \E k \in 1..Len(amounts_found) :
                /\ WellFormedAmount(amounts_found[k])
                /\ upcoming[j][2] = _parse_amount(amounts_found[k])

\* the keywords of the financial charges, each at the start of a word
KeywordRe == {<<WordBoundary>> \o p : p \in CargoRe}
\* line k is a tax, interest, VAT, surcharge, commission or financial-charge line
ChargeKeywordAt(k) == SearchAlt(KeywordRe, Strip(lines[k]))
\* line k is a candidate: read inside the section, not blank, not a banner,
\* a closing line or a financial-charge line
CandidateAt(k) ==
    /\ ReadInside(k)
    /\ Strip(lines[k]) # <<>>
    /\ ~BannerAt(k) /\ ~CloserAt(k) /\ ~ChargeKeywordAt(k)

\* C30: every non-blank line read in state INSIDE_DETAIL that starts with a
\* resolvable date token, ends with a positive amount and is no banner,
\* closing line or tax/interest/VAT/surcharge/commission/financial-charge
\* line yields exactly one record; a merchant whose name only holds the
\* letters of a keyword inside a longer word is not skipped as noise.
\* (Stated for the date tokens written with hyphens, the ones the line
\* parser's pattern takes.)
C30_CompleteInsideDetail ==
    pc = "done" =>
        \A k \in 1..Len(lines) :
            CandidateAt(k) /\ DatedCharge(Strip(lines[k]), Match(LineDateRe, Strip(lines[k])))
                => Cardinality({i \in 1..Len(origin) : origin[i] = k}) = 1

====
